---- MODULE Spec2Model ----
(***************************************************************************)
(* Portfolio return and performance-metrics pipeline of the tearsheet      *)
(* application: DataFetcher (fetch_historical_data, _merge_symbol_data,    *)
(* get_close_prices) and PortfolioAnalyzer (calculate_portfolio_returns,   *)
(* calculate_performance_metrics).                                         *)
(*                                                                         *)
(* Numbers.  A number is a record [n, d]: the rational n/d in lowest terms *)
(* with d > 0, or NaN, the missing value of pandas, written [n |-> 0,      *)
(* d |-> 0].  Prices are positive, so no quotient of the pipeline is       *)
(* infinite.  Arithmetic is exact except in Mean, where the rounding of    *)
(* the binary floating-point sum and quotient is modelled (FlRound),       *)
(* because the sign test `volatility > 0` depends on it.                   *)
(*                                                                         *)
(* Tables.  A data frame is a record [cols, rows]: cols the sequence of    *)
(* its column names other than `time`, rows a sequence of records          *)
(* [time, v] with v a function from the columns to numbers.  The column    *)
(* f"{symbol}_{field}" is the pair <<symbol, field>>.  A series is a       *)
(* sequence of records [time, x].                                          *)
(***************************************************************************)
EXTENDS Integers, Sequences, FiniteSets, TLC

VARIABLES
    fill_method,   \* what DataFrame.pct_change() does with gaps in this build
    price_data,    \* the caller's price table
    args,          \* arguments of the last call
    outcome,       \* what the last call returned or raised
    analyzer,      \* PortfolioAnalyzer.returns and .portfolio_returns
    quotes,        \* what Quote(symbol).history(...) answers, per symbol
    pc,            \* position of the request in the pipeline
    form,          \* the raw fields of a submitted portfolio form
    validated,     \* what the last ValidationService call returned or raised
    requests,      \* the locals of each request handler running on the shared services
    session,       \* session['analysis_results'] of each browser session
    calls          \* the calls made so far and what each answered, oldest first

vars ==
    <<fill_method, price_data, args, outcome, analyzer, quotes, pc, form, validated,
      requests, session, calls>>

----------------------------------------------------------------------------
(* Bounds of the model *)

MaxRows == 3
MaxPeriods == 3
MaxQuoteRows == 2
MaxWeights == 3
MaxSymbols == 3
MantissaBits == 4
FormMantissaBits == 17
MaxSummaries == 1
MaxRequests == 3

(* Program constants *)

TradingDays == 252

----------------------------------------------------------------------------
(* Numbers *)

Abs(i) == IF i < 0 THEN -i ELSE i

Sign(i) == IF i < 0 THEN -1 ELSE IF i = 0 THEN 0 ELSE 1

RECURSIVE GCD(_, _)
GCD(a, b) == IF b = 0 THEN a ELSE GCD(b, a % b)

NaN == [n |-> 0, d |-> 0]

IsNaN(x) == x.d = 0

Q(num, den) ==
    IF den = 0 THEN NaN
    ELSE LET g == GCD(Abs(num), Abs(den))
             s == IF den < 0 THEN -1 ELSE 1
         IN  [n |-> s * (num \div g), d |-> s * (den \div g)]

Int2Q(i) == [n |-> i, d |-> 1]

Zero == Int2Q(0)

One == Int2Q(1)

\* Sums and comparisons go through the common denominator a.d * (b.d / g).
RAdd(a, b) ==
    IF IsNaN(a) \/ IsNaN(b) THEN NaN
    ELSE LET g == GCD(a.d, b.d)
         IN  Q(a.n * (b.d \div g) + b.n * (a.d \div g), a.d * (b.d \div g))

RNeg(a) == [n |-> -a.n, d |-> a.d]

RSub(a, b) == RAdd(a, RNeg(b))

RMul(a, b) == IF IsNaN(a) \/ IsNaN(b) THEN NaN ELSE Q(a.n * b.n, a.d * b.d)

\* 0/0 is NaN; a non-zero number over 0 does not occur (prices are positive).
RDiv(a, b) == IF IsNaN(a) \/ IsNaN(b) THEN NaN ELSE Q(a.n * b.d, a.d * b.n)

\* Comparisons with NaN are false, as in IEEE arithmetic.
RLess(a, b) == ~IsNaN(a) /\ ~IsNaN(b) /\ RSub(a, b).n < 0

RLeq(a, b) == ~IsNaN(a) /\ ~IsNaN(b) /\ RSub(a, b).n <= 0

----------------------------------------------------------------------------
(* Data frames *)

Range(seq) == {seq[i] : i \in DOMAIN seq}

Front(seq) == SubSeq(seq, 1, Len(seq) - 1)

Last(seq) == seq[Len(seq)]

MinInt(a, b) == IF a < b THEN a ELSE b

\* The column f"{symbol}_close".
CloseCol(symbol) == <<symbol, "close">>

RECURSIVE InsertRow(_, _)
InsertRow(sorted, r) ==
    IF sorted = <<>> THEN <<r>>
    ELSE IF Last(sorted).time <= r.time THEN Append(sorted, r)
    ELSE Append(InsertRow(Front(sorted), r), Last(sorted))

\* DataFrame.sort_index(): the rows in ascending order of their time.
RECURSIVE SortIndex(_)
SortIndex(rows) ==
    IF rows = <<>> THEN <<>>
    ELSE InsertRow(SortIndex(Front(rows)), Last(rows))

\* The last value of column c at or before row i that is not NaN, NaN if none.
RECURSIVE LastValid(_, _, _)
LastValid(rows, i, c) ==
    IF i = 0 THEN NaN
    ELSE IF ~IsNaN(rows[i].v[c]) THEN rows[i].v[c]
    ELSE LastValid(rows, i - 1, c)

\* DataFrame.pct_change(): data / data.shift(1) - 1, column by column.
PctChange(rows, fill) ==
    LET \* DataFrame.ffill(): every gap takes the last valid value above it.
        FFill(k, col) == LastValid(rows, k, col)
        \* The frame pct_change divides: forward-filled when the default
        \* fill_method of the build is "pad", as it is when it is None.
        Filled(k, col) == IF fill = "pad" THEN FFill(k, col) ELSE rows[k].v[col]
    IN
    [i \in DOMAIN rows |->
        [time |-> rows[i].time,
         v |-> [c \in DOMAIN rows[i].v |->
                  IF i = 1 THEN NaN
                  ELSE RSub(RDiv(Filled(i, c), Filled(i - 1, c)), One)]]]

\* dropna left out: every row is kept.
DropNaKeepsAll(rows) == rows

\* DataFrame.dropna(): the rows in which no column is NaN.
DropNa(rows) ==
    SelectSeq(rows, LAMBDA r : \A c \in DOMAIN r.v : ~IsNaN(r.v[c]))

----------------------------------------------------------------------------
(* PortfolioAnalyzer *)

NoSeries == <<>>

NoMetrics == [defined |-> FALSE]

\* for symbol, weight in zip(symbols, weights): the symbol's return times its
\* weight is added if the column is there; the first k pairs.
RECURSIVE WeightedRow(_, _, _, _)
WeightedRow(v, symbols, weights, k) ==
    IF k = 0 THEN Zero
    ELSE IF CloseCol(symbols[k]) \in DOMAIN v
    THEN RAdd(WeightedRow(v, symbols, weights, k - 1),
              RMul(v[CloseCol(symbols[k])], weights[k]))
    ELSE WeightedRow(v, symbols, weights, k - 1)

WeightedSum(returns, symbols, weights) ==
    [i \in DOMAIN returns |->
        [time |-> returns[i].time,
         x |-> WeightedRow(returns[i].v, symbols, weights,
                           MinInt(Len(symbols), Len(weights)))]]

\* The expected-columns test of lines 132-135 left out.
MissingColsUnchecked(table, symbols) == <<>>

\* [col for col in expected_cols if col not in returns.columns]
MissingCols(table, symbols) ==
    LET expected_cols == [i \in DOMAIN symbols |-> CloseCol(symbols[i])]
    IN  SelectSeq(expected_cols, LAMBDA c : c \notin Range(table.cols))

\* calculate_portfolio_returns: what it returns or raises and what it stores.
\* Every exception raised in its body leaves as AnalysisError.
CalculatePortfolioReturns(table, symbols, weights, fill) ==
    IF MissingCols(table, symbols) # <<>>
    THEN [status |-> "AnalysisError", series |-> NoSeries, returns |-> <<>>]
    ELSE LET \* price_data.sort_index().pct_change().dropna()
             returns == DropNa(PctChange(SortIndex(table.rows), fill))
         IN  [status |-> "ok",
              series |-> WeightedSum(returns, symbols, weights),
              returns |-> returns]

----------------------------------------------------------------------------
(* Floating point: the rounding of a sum and of a quotient *)

RECURSIVE Pow2(_)
Pow2(k) == IF k = 0 THEN 1 ELSE 2 * Pow2(k - 1)

\* The float nearest to num/den > 0: a mantissa of MantissaBits bits times a
\* power of two.
RECURSIVE FlPositive(_, _)
FlPositive(num, den) ==
    IF num < Pow2(MantissaBits - 1) * den
    THEN RMul(FlPositive(2 * num, den), Q(1, 2))
    ELSE IF num >= Pow2(MantissaBits) * den
    THEN RMul(FlPositive(num, 2 * den), Int2Q(2))
    ELSE LET \* num/den to the nearest integer, ties to the even one.
             f == num \div den
             r == num % den
             RoundHalfEven ==
                 IF 2 * r < den THEN f
                 ELSE IF 2 * r > den THEN f + 1
                 ELSE IF f % 2 = 0 THEN f ELSE f + 1
         IN  Int2Q(RoundHalfEven)

FlRound(x) ==
    IF IsNaN(x) \/ x.n = 0 THEN x
    ELSE RMul(Int2Q(Sign(x.n)), FlPositive(Abs(x.n), x.d))

----------------------------------------------------------------------------
(* Series statistics *)

\* values.sum(): the elements added one after the other, each sum rounded.
RECURSIVE SeriesSum(_, _)
SeriesSum(s, k) ==
    IF k = 0 THEN Zero
    ELSE FlRound(RAdd(SeriesSum(s, k - 1), s[k].x))

\* Series.mean(): the sum over the count.
Mean(s) == FlRound(RDiv(SeriesSum(s, Len(s)), Int2Q(Len(s))))

RECURSIVE SumSquares(_, _, _)
SumSquares(s, avg, k) ==
    IF k = 0 THEN Zero
    ELSE RAdd(SumSquares(s, avg, k - 1),
              RMul(RSub(avg, s[k].x), RSub(avg, s[k].x)))

\* (1 + s).cumprod() up to row k.
RECURSIVE CumProd(_, _)
CumProd(s, k) ==
    IF k = 0 THEN One
    ELSE RMul(CumProd(s, k - 1), RAdd(One, s[k].x))

\* cumulative_returns.expanding().max() at row k, k >= 1.
RECURSIVE RollingMax(_, _)
RollingMax(s, k) ==
    LET RMax(a, b) == IF RLess(a, b) THEN b ELSE a
    IN
    IF k = 1 THEN CumProd(s, 1)
    ELSE RMax(RollingMax(s, k - 1), CumProd(s, k))

Drawdown(s, k) == RDiv(RSub(CumProd(s, k), RollingMax(s, k)), RollingMax(s, k))

\* Series.min(): the least value that is not NaN, NaN if there is none.
RECURSIVE MinDrawdown(_, _)
MinDrawdown(s, k) ==
    LET RMin(a, b) == IF RLess(b, a) THEN b ELSE a
    IN
    IF k = 0 THEN NaN
    ELSE LET rest == MinDrawdown(s, k - 1)
             d == Drawdown(s, k)
         IN  IF IsNaN(d) THEN rest
             ELSE IF IsNaN(rest) THEN d
             ELSE RMin(rest, d)

\* len(portfolio_returns[portfolio_returns > 0])
\* positive_periods counting the periods of return zero as well.
PositivePeriodsNonNegative(s) == Cardinality({k \in DOMAIN s : RLeq(Zero, s[k].x)})

PositivePeriods(s) == Cardinality({k \in DOMAIN s : RLess(Zero, s[k].x)})

RECURSIVE MinTime(_, _)
MinTime(s, k) ==
    IF k = 1 THEN s[1].time
    ELSE MinInt(MinTime(s, k - 1), s[k].time)

RECURSIVE MaxTime(_, _)
MaxTime(s, k) ==
    IF k = 1 THEN s[1].time
    ELSE IF MaxTime(s, k - 1) < s[k].time THEN s[k].time ELSE MaxTime(s, k - 1)

\* (1 + mean) ** 252 - 1, kept as its base and exponent.
AnnualizedReturn(s) == [base |-> RAdd(One, Mean(s)), exp |-> TradingDays]

\* std * sqrt(252), kept as the variance and the number of periods.
Volatility(s) ==
    LET \* Series.std() squared: the squared deviations from the computed mean,
        \* over count - 1; NaN for a single value (0/0).
        Variance == RDiv(SumSquares(s, Mean(s), Len(s)), Int2Q(Len(s) - 1))
    IN  [variance |-> Variance, periods |-> TradingDays]

\* excess_return / volatility if volatility > 0 else 0; the quotient is kept
\* as its numerator (annualized return less the risk-free rate) and denominator.
SharpeRatio(s, risk_free_rate) ==
    LET \* volatility > 0
        VolatilityPositive(vol) == RLess(Zero, vol.variance)
    IN
    IF VolatilityPositive(Volatility(s))
    THEN [zero |-> FALSE,
          annualized |-> AnnualizedReturn(s),
          risk_free_rate |-> risk_free_rate,
          over |-> Volatility(s)]
    ELSE [zero |-> TRUE,
          annualized |-> AnnualizedReturn(s),
          risk_free_rate |-> risk_free_rate,
          over |-> Volatility(s)]

\* The returns summed instead of compounded.
TotalReturnSummed(s) == SeriesSum(s, Len(s))

\* (1 + portfolio_returns).prod() - 1
TotalReturn(s) == RSub(CumProd(s, Len(s)), One)

\* The drawdown of the last period instead of the least one.
MaxDrawdownLast(s) == Drawdown(s, Len(s))

\* drawdowns.min()
MaxDrawdown(s) == MinDrawdown(s, Len(s))

\* The metrics dictionary of a series that is not empty.
MetricsRecord(s, risk_free_rate) ==
    [defined |-> TRUE,
     total_return |-> TotalReturn(s),
     annualized_return |-> AnnualizedReturn(s),
     volatility |-> Volatility(s),
     sharpe_ratio |-> SharpeRatio(s, risk_free_rate),
     max_drawdown |-> MaxDrawdown(s),
     win_rate |-> Q(PositivePeriods(s), Len(s)),
     total_periods |-> Len(s),
     start_date |-> MinTime(s, Len(s)),
     end_date |-> MaxTime(s, Len(s))]

\* calculate_performance_metrics answering an empty series with no record
\* instead of raising.
CalculatePerformanceMetricsEmptyOk(s, risk_free_rate) ==
    IF s = <<>>
    THEN [status |-> "ok", metrics |-> NoMetrics]
    ELSE [status |-> "ok", metrics |-> MetricsRecord(s, risk_free_rate)]

\* calculate_performance_metrics: the record it returns, or AnalysisError.
CalculatePerformanceMetrics(s, risk_free_rate) ==
    IF s = <<>>
    THEN [status |-> "AnalysisError", metrics |-> NoMetrics]
    ELSE [status |-> "ok", metrics |-> MetricsRecord(s, risk_free_rate)]

----------------------------------------------------------------------------
(* Floating point at the precision of the form's numbers *)

\* num/den > 0 brought into [1/2, 1): num/den = r[1]/r[2] * 2^r[3].
RECURSIVE Normalise(_, _, _)
Normalise(num, den, e) ==
    IF num >= den THEN Normalise(num, 2 * den, e + 1)
    ELSE IF 2 * num < den THEN Normalise(2 * num, den, e - 1)
    ELSE <<num, den, e>>

\* The first bits binary digits of r/den < 1 and the remainder left, by long
\* division.
RECURSIVE Mantissa(_, _, _, _)
Mantissa(r, den, m, bits) ==
    IF bits = 0 THEN <<m, r>>
    ELSE IF 2 * r >= den THEN Mantissa(2 * r - den, den, 2 * m + 1, bits - 1)
    ELSE Mantissa(2 * r, den, 2 * m, bits - 1)

\* m * 2^e for m > 0, in lowest terms.
RECURSIVE Dyadic(_, _)
Dyadic(m, e) ==
    IF e >= 0 THEN Int2Q(m * Pow2(e))
    ELSE IF m % 2 = 0 THEN Dyadic(m \div 2, e + 1)
    ELSE [n |-> m, d |-> Pow2(-e)]

\* The float of bits mantissa bits nearest to num/den > 0, ties to even.
FlNearest(bits, num, den) ==
    LET nd == Normalise(num, den, 0)
        mr == Mantissa(nd[1], nd[2], 0, bits)
        up == \/ 2 * mr[2] > nd[2]
              \/ 2 * mr[2] = nd[2] /\ mr[1] % 2 = 1
        m  == IF up THEN mr[1] + 1 ELSE mr[1]
        e  == nd[3] - bits
    IN  Dyadic(m, e)

FlRoundAt(bits, x) ==
    IF IsNaN(x) \/ x.n = 0 THEN x
    ELSE IF x.n < 0 THEN RNeg(FlNearest(bits, -x.n, x.d))
    ELSE FlNearest(bits, x.n, x.d)

\* a / b in floats, b not zero: the common factors are taken out first.
FlQuotient(bits, a, b) ==
    IF IsNaN(a) \/ IsNaN(b) THEN NaN
    ELSE IF a.n = 0 THEN Zero
    ELSE LET g1 == GCD(Abs(a.n), Abs(b.n))
             g2 == GCD(a.d, b.d)
             num == (Abs(a.n) \div g1) * (b.d \div g2)
             den == (a.d \div g2) * (Abs(b.n) \div g1)
             v == FlNearest(bits, num, den)
         IN  IF Sign(a.n) * Sign(b.n) < 0 THEN RNeg(v) ELSE v

----------------------------------------------------------------------------
(* DataFetcher *)

Times(rows) == {rows[i].time : i \in DOMAIN rows}

RowAt(rows, t) == rows[CHOOSE i \in DOMAIN rows : rows[i].time = t]

\* pd.merge(left, right, on="time", how="outer"): one row for every time of
\* either frame (the times of a frame are distinct).
OuterMerge(left, right) ==
    LET \* The value of column c at time t in frame, NaN where the frame has no such row.
        CellAt(frame, t, c) ==
            IF t \in Times(frame.rows) THEN RowAt(frame.rows, t).v[c] ELSE NaN
        allcols == Range(left.cols) \cup Range(right.cols)
        rightonly == SelectSeq(right.rows, LAMBDA r : r.time \notin Times(left.rows))
        keys == [i \in 1..(Len(left.rows) + Len(rightonly)) |->
                    IF i <= Len(left.rows) THEN left.rows[i].time
                    ELSE rightonly[i - Len(left.rows)].time]
    IN  [cols |-> left.cols \o right.cols,
         rows |-> [i \in DOMAIN keys |->
                    [time |-> keys[i],
                     v |-> [c \in allcols |->
                              IF c \in Range(left.cols)
                              THEN CellAt(left, keys[i], c)
                              ELSE CellAt(right, keys[i], c)]]]]

EmptyFrame == [cols |-> <<>>, rows |-> <<>>]

\* The loop of _merge_symbol_data over the first k fetched symbols.
RECURSIVE MergeLoop(_, _, _)
MergeLoop(fetched, answers, k) ==
    LET \* The columns of a symbol's frame renamed to f"{symbol}_{col}".
        PrefixColumns(symbol, frame) ==
            [cols |-> [i \in DOMAIN frame.cols |-> <<symbol, frame.cols[i]>>],
             rows |-> [i \in DOMAIN frame.rows |->
                        [time |-> frame.rows[i].time,
                         v |-> [c \in {<<symbol, f>> : f \in Range(frame.cols)} |->
                                  frame.rows[i].v[c[2]]]]]]
    IN
    IF k = 0 THEN EmptyFrame
    ELSE LET combined_data == MergeLoop(fetched, answers, k - 1)
             temp_df == PrefixColumns(fetched[k], answers[fetched[k]].frame)
         IN  IF combined_data.rows = <<>> THEN temp_df
             ELSE OuterMerge(combined_data, temp_df)

\* _merge_symbol_data: the merge, then sort_values("time").
MergeSymbolData(fetched, answers) ==
    LET combined_data == MergeLoop(fetched, answers, Len(fetched))
    IN  [cols |-> combined_data.cols, rows |-> SortIndex(combined_data.rows)]

\* The keys of all_historical_data in insertion order: the symbols of the first
\* k requested whose history came back with rows (an exception or an empty
\* frame leaves the symbol out).
RECURSIVE FetchedSymbols(_, _, _)
FetchedSymbols(symbols, answers, k) ==
    IF k = 0 THEN <<>>
    ELSE LET before == FetchedSymbols(symbols, answers, k - 1)
         IN  IF answers[symbols[k]].kind = "rows" /\ symbols[k] \notin Range(before)
             THEN Append(before, symbols[k])
             ELSE before

\* fetch_historical_data
FetchHistoricalData(symbols, answers) ==
    LET all_historical_data == FetchedSymbols(symbols, answers, Len(symbols))
    IN  IF symbols = <<>> \/ all_historical_data = <<>>
        THEN [status |-> "DataFetchError", table |-> EmptyFrame]
        ELSE [status |-> "ok", table |-> MergeSymbolData(all_historical_data, answers)]

\* get_close_prices that projects the close columns it finds and raises nothing.
GetClosePricesLenient(combined_data, symbols) ==
    LET close_cols == SelectSeq([i \in DOMAIN symbols |-> CloseCol(symbols[i])],
                                LAMBDA c : c \in Range(combined_data.cols))
    IN  [status |-> "ok",
         table |-> [cols |-> close_cols,
                    rows |-> [i \in DOMAIN combined_data.rows |->
                               [time |-> combined_data.rows[i].time,
                                v |-> [c \in Range(close_cols) |->
                                         combined_data.rows[i].v[c]]]]]]

\* A table whose timestamps are its index: it has no column `time`.
\* The index holds Timestamps ("datetime"), or the dates as strings ("str").
TimeAsIndex(frame, dtype) == [cols |-> frame.cols, rows |-> frame.rows, index |-> dtype]

\* "time" in combined_data.columns
HasTimeColumn(frame) == "index" \notin DOMAIN frame

\* get_close_prices keeping the close columns in the order the table has them.
GetClosePricesTableOrder(combined_data, symbols) ==
    LET close_cols == [i \in DOMAIN symbols |-> CloseCol(symbols[i])]
        kept == SelectSeq(combined_data.cols, LAMBDA c : c \in Range(close_cols))
    IN  IF ~HasTimeColumn(combined_data) \/ \E c \in Range(close_cols) :
                                                c \notin Range(combined_data.cols)
        THEN [status |-> "DataFetchError", table |-> EmptyFrame]
        ELSE [status |-> "ok",
              table |-> [cols |-> kept,
                         rows |-> [i \in DOMAIN combined_data.rows |->
                                    [time |-> combined_data.rows[i].time,
                                     v |-> [c \in Range(kept) |->
                                              combined_data.rows[i].v[c]]]]]]

\* get_close_prices: combined_data[close_cols].copy(), or DataFetchError.  The
\* column `time` heads close_cols; in a frame it is the time of each row.
GetClosePrices(combined_data, symbols) ==
    LET close_cols == [i \in DOMAIN symbols |-> CloseCol(symbols[i])]
        missing_cols ==
            (IF HasTimeColumn(combined_data) THEN <<>> ELSE <<"time">>)
                \o SelectSeq(close_cols, LAMBDA c : c \notin Range(combined_data.cols))
    IN  IF missing_cols # <<>>
        THEN [status |-> "DataFetchError", table |-> EmptyFrame]
        ELSE [status |-> "ok",
              table |-> [cols |-> close_cols,
                         rows |-> [i \in DOMAIN combined_data.rows |->
                                    [time |-> combined_data.rows[i].time,
                                     v |-> [c \in Range(close_cols) |->
                                              combined_data.rows[i].v[c]]]]]]

\* data_loader.get_close_prices, the loader of the first application: the
\* same projection, raising DataLoaderError.
LegacyGetClosePrices(combined_data, symbols) ==
    LET close_cols == [i \in DOMAIN symbols |-> CloseCol(symbols[i])]
        missing_cols ==
            (IF HasTimeColumn(combined_data) THEN <<>> ELSE <<"time">>)
                \o SelectSeq(close_cols, LAMBDA c : c \notin Range(combined_data.cols))
    IN  IF missing_cols # <<>>
        THEN [status |-> "DataLoaderError", table |-> EmptyFrame]
        ELSE [status |-> "ok",
              table |-> [cols |-> close_cols,
                         rows |-> [i \in DOMAIN combined_data.rows |->
                                    [time |-> combined_data.rows[i].time,
                                     v |-> [c \in Range(close_cols) |->
                                              combined_data.rows[i].v[c]]]]]]

----------------------------------------------------------------------------
(* PortfolioAnalyzer: what a call leaves behind, and the summary *)

\* The caller's table after lines 118-126.  set_index("time") and sort_index()
\* return new frames; `price_data.index = pd.to_datetime(price_data.index)`
\* assigns to the frame the name is bound to, which is the caller's own frame
\* when the table came with its timestamps as the index.
PriceDataAfterCall(table) ==
    IF HasTimeColumn(table) THEN table ELSE [table EXCEPT !.index = "datetime"]

\* self.returns and self.portfolio_returns cleared by a call that raises.
StoredOrCleared(self, result) ==
    [is_none |-> result.status # "ok", returns |-> result.returns,
     portfolio_returns |-> result.series]

\* self.returns = returns; self.portfolio_returns = portfolio_returns: reached
\* only by a call that does not raise.
Stored(self, result) ==
    IF result.status = "ok"
    THEN [is_none |-> FALSE, returns |-> result.returns,
          portfolio_returns |-> result.series]
    ELSE self

\* The handler measuring the series the shared analyzer holds.
HandlerMetricsOfStored(portfolio_returns, self) ==
    CalculatePerformanceMetrics(self.portfolio_returns, Zero)

\* metrics = portfolio_analyzer.calculate_performance_metrics(portfolio_returns)
\* with the series the handler got back from its own returns call.
HandlerMetrics(portfolio_returns, self) ==
    CalculatePerformanceMetrics(portfolio_returns, Zero)

\* get_portfolio_summary: raises while portfolio_returns is None; the metrics
\* call inside it raises AnalysisError for an empty series.
GetPortfolioSummary(self) ==
    IF self.is_none
    THEN [status |-> "AnalysisError", data_points |-> 0, metrics |-> NoMetrics]
    ELSE LET m == CalculatePerformanceMetrics(self.portfolio_returns, Zero)
         IN  IF m.status = "ok"
             THEN [status |-> "ok", data_points |-> Len(self.portfolio_returns),
                   metrics |-> m.metrics]
             ELSE [status |-> "AnalysisError", data_points |-> 0, metrics |-> NoMetrics]

----------------------------------------------------------------------------
(* ValidationService: weights *)

\* A raw form entry is a string: blank (empty or white space only), a decimal
\* numeral with its value (white space around it or not), the text "nan", or
\* other text that float() does not accept.
Blank == [kind |-> "blank", value |-> NaN]

Text == [kind |-> "text", value |-> NaN]

NanText == [kind |-> "nan", value |-> NaN]

Numeral(v) == [kind |-> "number", value |-> v]

\* float(w.strip()): the float nearest to the numeral.
ParseFloat(w) == IF w.kind = "number" THEN FlRoundAt(FormMantissaBits, w.value) ELSE NaN

\* str(x) of a float: the numeral that float() reads back as x.
FormatFloat(x) == IF IsNaN(x) THEN NanText ELSE Numeral(x)

MIN_WEIGHT == Zero

MAX_WEIGHT == One

WEIGHT_TOLERANCE == FlRoundAt(FormMantissaBits, Q(1, 10000))

Raised(kind, message) == [status |-> kind, message |-> message, value |-> <<>>]

Returned(value) == [status |-> "ok", message |-> "", value |-> value]

\* The entries a filter keeps, in their order.
RECURSIVE NonBlank(_)
NonBlank(ws) ==
    LET \* w.strip() is not empty.
        Stripped(w) == w.kind # "blank"
    IN
    IF ws = <<>> THEN <<>>
    ELSE IF Stripped(ws[1]) THEN <<ws[1]>> \o NonBlank(Tail(ws))
    ELSE NonBlank(Tail(ws))

\* sum(float_weights): from the left, every sum rounded.
RECURSIVE FloatSum(_, _)
FloatSum(xs, k) ==
    IF k = 0 THEN Zero
    ELSE FlRoundAt(FormMantissaBits, RAdd(FloatSum(xs, k - 1), xs[k]))

\* The sum of the weights taken to be 1.0 whatever it is.
SumErrorIgnored(weight_sum) == Zero

\* abs(weight_sum - 1.0)
SumError(weight_sum) ==
    LET d == FlRoundAt(FormMantissaBits, RSub(weight_sum, One))
    IN  IF IsNaN(d) THEN d ELSE [n |-> Abs(d.n), d |-> d.d]

ValidateWeights(weights, num_symbols) ==
    LET \* float(w.strip()) raises ValueError.
        Unparsable(w) == w.kind = "text"
    IN
    IF weights = <<>> THEN Raised("ValidationError", "No weights provided")
    ELSE IF Len(weights) # num_symbols
    THEN Raised("ValidationError", "Number of weights must match number of symbols")
    ELSE IF \E i \in DOMAIN weights : Unparsable(weights[i])
    THEN Raised("ValidationError", "Weights must be valid numbers")
    ELSE LET kept == NonBlank(weights)
             float_weights == [i \in DOMAIN kept |-> ParseFloat(kept[i])]
             weight_sum == FloatSum(float_weights, Len(float_weights))
             \* [w / weight_sum for w in float_weights]
             normalized_weights ==
                 [i \in DOMAIN float_weights |->
                     FlQuotient(FormMantissaBits, float_weights[i], weight_sum)]
         IN  IF Len(float_weights) # num_symbols
             THEN Raised("ValidationError", "Some weights are missing or invalid")
             ELSE IF \E i \in DOMAIN float_weights :
                        ~(RLeq(MIN_WEIGHT, float_weights[i])
                            /\ RLeq(float_weights[i], MAX_WEIGHT))
             THEN Raised("ValidationError", "INVALID_WEIGHT")
             ELSE IF RLess(WEIGHT_TOLERANCE, SumError(weight_sum))
             THEN Raised("ValidationError", "WEIGHTS_NOT_SUM_ONE")
             ELSE Returned(normalized_weights)

NoForm ==
    [symbols |-> <<>>, weights |-> <<>>, num_symbols |-> 0, capital |-> <<>>,
     start_date |-> <<>>, end_date |-> <<>>, today |-> 0]

NoValidation ==
    [op |-> "none", status |-> "none", message |-> "", value |-> <<>>, first |-> <<>>]

----------------------------------------------------------------------------
(* ValidationService: symbols *)

MIN_PORTFOLIO_SIZE == 1

MAX_PORTFOLIO_SIZE == 10

\* A string is the sequence of its characters.
UpperCase == <<"A", "B", "C", "E", "F", "M", "R">>

CapitalLetters == Range(UpperCase) \cup {"D", "G", "H", "I", "J", "K"}

IsSpace(c) == c \in {" ", "\t", "\n"}

\* str.upper(), one character at a time.
Upper(str) ==
    LET LowerCase == <<"a", "b", "c", "e", "f", "m", "r">>
        UpperChar(c) ==
            IF \E i \in DOMAIN LowerCase : LowerCase[i] = c
            THEN UpperCase[CHOOSE i \in DOMAIN LowerCase : LowerCase[i] = c]
            ELSE c
    IN  [i \in DOMAIN str |-> UpperChar(str[i])]

RECURSIVE LStrip(_)
LStrip(str) ==
    IF str # <<>> /\ IsSpace(Head(str)) THEN LStrip(Tail(str)) ELSE str

RECURSIVE RStrip(_)
RStrip(str) ==
    IF str # <<>> /\ IsSpace(Last(str)) THEN RStrip(Front(str)) ELSE str

\* str.strip()
Strip(str) == RStrip(LStrip(str))

\* [s.strip().upper() for s in symbols if s and s.strip()]
RECURSIVE CleanedSymbols(_)
CleanedSymbols(symbols) ==
    IF symbols = <<>> THEN <<>>
    ELSE IF Head(symbols) # <<>> /\ Strip(Head(symbols)) # <<>>
    THEN <<Upper(Strip(Head(symbols)))>> \o CleanedSymbols(Tail(symbols))
    ELSE CleanedSymbols(Tail(symbols))

\* The pattern taken as [A-Z]{2,4}.
SymbolPatternLoose(str) ==
    /\ Len(str) \in 2..4
    /\ \A i \in DOMAIN str : str[i] \in CapitalLetters

\* re.compile(r"^[A-Z]{3,4}$").match(s), s without line breaks at its end
SymbolPatternMatches(str) ==
    /\ Len(str) \in 3..4
    /\ \A i \in DOMAIN str : str[i] \in CapitalLetters

\* An entry of the list that is not a string but a number other than zero:
\* it has no strip().
NotAString == <<"int">>

ValidateSymbols(symbols) ==
    IF symbols = <<>> THEN Raised("ValidationError", "No symbols provided")
    ELSE IF \E i \in DOMAIN symbols : symbols[i] = NotAString
    THEN Raised("AttributeError", "'int' object has no attribute 'strip'")
    ELSE LET cleaned_symbols == CleanedSymbols(symbols)
         IN  IF cleaned_symbols = <<>>
             THEN Raised("ValidationError", "No valid symbols provided")
             ELSE IF Len(cleaned_symbols) < MIN_PORTFOLIO_SIZE
             THEN Raised("ValidationError", "Portfolio must have at least")
             ELSE IF Len(cleaned_symbols) > MAX_PORTFOLIO_SIZE
             THEN Raised("ValidationError", "PORTFOLIO_TOO_LARGE")
             ELSE IF Len(cleaned_symbols) # Cardinality(Range(cleaned_symbols))
             THEN Raised("ValidationError", "Duplicate symbols are not allowed")
             ELSE IF \E i \in DOMAIN cleaned_symbols :
                        ~SymbolPatternMatches(cleaned_symbols[i])
             THEN Raised("ValidationError", "Invalid symbol format")
             ELSE Returned(cleaned_symbols)

----------------------------------------------------------------------------
(* ValidationService: date range *)

MAX_DATE_RANGE_DAYS == 3650

DigitChars == <<"0", "1", "2", "3", "4", "5", "6", "7", "8", "9">>

IsDigit(c) == \E i \in DOMAIN DigitChars : DigitChars[i] = c

DigitValue(c) == (CHOOSE i \in DOMAIN DigitChars : DigitChars[i] = c) - 1

\* int() of a run of digits
RECURSIVE Number(_)
Number(str) ==
    IF str = <<>> THEN 0 ELSE 10 * Number(Front(str)) + DigitValue(Last(str))

\* The pattern taken with any character between the runs of digits.
DatePatternAnySeparator(str) ==
    /\ Len(str) = 10
    /\ \A i \in {1, 2, 3, 4, 6, 7, 9, 10} : IsDigit(str[i])

\* re.compile(r"^\d{4}-\d{2}-\d{2}$").match(s), s without line breaks at its end
DatePatternMatches(str) ==
    /\ Len(str) = 10
    /\ \A i \in {1, 2, 3, 4, 6, 7, 9, 10} : IsDigit(str[i])
    /\ str[5] = "-"
    /\ str[8] = "-"

DaysInMonth(y, m) ==
    LET IsLeap == (y % 4 = 0 /\ y % 100 # 0) \/ y % 400 = 0
    IN
    IF m = 2 THEN (IF IsLeap THEN 29 ELSE 28)
    ELSE IF m \in {4, 6, 9, 11} THEN 30 ELSE 31

RECURSIVE DaysBeforeMonth(_, _)
DaysBeforeMonth(y, m) ==
    IF m = 1 THEN 0 ELSE DaysBeforeMonth(y, m - 1) + DaysInMonth(y, m - 1)

\* date.toordinal(): the days from 0001-01-01, that day being 1.
Ordinal(y, m, d) ==
    365 * (y - 1) + ((y - 1) \div 4) - ((y - 1) \div 100) + ((y - 1) \div 400)
        + DaysBeforeMonth(y, m) + d

\* datetime.strptime(s, "%Y-%m-%d") of a string the pattern matches: the day,
\* or ValueError for a date the calendar does not have.
StrpTime(str) ==
    LET y == Number(SubSeq(str, 1, 4))
        m == Number(SubSeq(str, 6, 7))
        d == Number(SubSeq(str, 9, 10))
    IN  IF m \notin 1..12 \/ d \notin 1..31
        THEN [error |-> "time data does not match format", ordinal |-> 0]
        ELSE IF y < 1 \/ d > DaysInMonth(y, m)
        THEN [error |-> "out of range", ordinal |-> 0]
        ELSE [error |-> "", ordinal |-> Ordinal(y, m, d)]

\* today is datetime.now().date() as an ordinal.
ValidateDateRange(start_date, end_date, today) ==
    IF ~DatePatternMatches(Strip(start_date))
    THEN Raised("ValidationError", "INVALID_DATE_FORMAT")
    ELSE IF ~DatePatternMatches(Strip(end_date))
    THEN Raised("ValidationError", "INVALID_DATE_FORMAT")
    ELSE LET start_dt == StrpTime(Strip(start_date))
             end_dt == StrpTime(Strip(end_date))
             date_diff == end_dt.ordinal - start_dt.ordinal
             ten_years_ago == today - 10 * 365
             error == IF start_dt.error # "" THEN start_dt.error ELSE end_dt.error
         IN  IF error = "time data does not match format"
             THEN Raised("ValidationError", "INVALID_DATE_FORMAT")
             ELSE IF error # ""
             THEN Raised("ValidationError", "Date validation failed")
             ELSE IF start_dt.ordinal >= end_dt.ordinal
             THEN Raised("ValidationError", "INVALID_DATE_RANGE")
             ELSE IF date_diff > MAX_DATE_RANGE_DAYS
             THEN Raised("ValidationError", "Date range too large")
             ELSE IF end_dt.ordinal > today
             THEN Raised("ValidationError", "End date cannot be in the future")
             ELSE IF start_dt.ordinal < ten_years_ago
             THEN Raised("ValidationError", "Start date cannot be more than 10 years ago")
             ELSE Returned(<<Strip(start_date), Strip(end_date)>>)

----------------------------------------------------------------------------
(* ValidationService: capital *)

\* float() of a string without white space around it, for the strings made of
\* an optional sign and then nan, inf or digits with at most one point (no
\* exponent): kind is "nan", "inf", "number" or "error" (ValueError); a number
\* keeps its digits before and after the point.
FloatOf(str) ==
    LET NanWords == {<<"n", "a", "n">>, <<"N", "a", "N">>, <<"N", "A", "N">>}
        InfWords == {<<"i", "n", "f">>, <<"I", "n", "f">>,
                     <<"i", "n", "f", "i", "n", "i", "t", "y">>}
        signed == str # <<>> /\ Head(str) \in {"+", "-"}
        neg == str # <<>> /\ Head(str) = "-"
        body == IF signed THEN Tail(str) ELSE str
        points == {i \in DOMAIN body : body[i] = "."}
        point == IF points = {} THEN Len(body) + 1 ELSE CHOOSE i \in points : TRUE
        int == SubSeq(body, 1, point - 1)
        frac == SubSeq(body, point + 1, Len(body))
    IN  IF body \in NanWords
        THEN [kind |-> "nan", neg |-> neg, int |-> <<>>, frac |-> <<>>]
        ELSE IF body \in InfWords
        THEN [kind |-> "inf", neg |-> neg, int |-> <<>>, frac |-> <<>>]
        ELSE IF /\ Cardinality(points) <= 1
                /\ Len(int) + Len(frac) >= 1
                /\ \A i \in DOMAIN int : IsDigit(int[i])
                /\ \A i \in DOMAIN frac : IsDigit(frac[i])
        THEN [kind |-> "number", neg |-> neg, int |-> int, frac |-> frac]
        ELSE [kind |-> "error", neg |-> FALSE, int |-> <<>>, frac |-> <<>>]

AllZeros(digits) == \A i \in DOMAIN digits : digits[i] = "0"

RECURSIVE StripZeros(_)
StripZeros(digits) ==
    IF digits # <<>> /\ Head(digits) = "0" THEN StripZeros(Tail(digits)) ELSE digits

\* a > b for runs of digits of the same length
RECURSIVE DigitsGreater(_, _)
DigitsGreater(a, b) ==
    IF a = <<>> THEN FALSE
    ELSE IF Head(a) # Head(b) THEN DigitValue(Head(a)) > DigitValue(Head(b))
    ELSE DigitsGreater(Tail(a), Tail(b))

\* The digits of 1_000_000_000_000.
CapitalLimit == <<"1">> \o [i \in 1..12 |-> "0"]

\* capital_float <= 0; false for nan.
NotPositive(x) ==
    CASE x.kind = "number" -> x.neg \/ (AllZeros(x.int) /\ AllZeros(x.frac))
      [] x.kind = "inf" -> x.neg
      [] OTHER -> FALSE

ValidateCapital(capital) ==
    LET \* capital_float > 1_000_000_000_000; false for nan.
        AboveLimit(x) ==
            CASE x.kind = "number" ->
                    LET int == StripZeros(x.int)
                    IN  /\ ~x.neg
                        /\ \/ Len(int) > Len(CapitalLimit)
                           \/ /\ Len(int) = Len(CapitalLimit)
                              /\ \/ DigitsGreater(int, CapitalLimit)
                                 \/ int = CapitalLimit /\ ~AllZeros(x.frac)
              [] x.kind = "inf" -> ~x.neg
              [] OTHER -> FALSE
    IN
    IF capital = <<>> \/ Strip(capital) = <<>>
    THEN Raised("ValidationError", "Capital amount is required")
    ELSE LET capital_float == FloatOf(Strip(capital))
         IN  IF capital_float.kind = "error"
             THEN Raised("ValidationError", "Capital must be a valid number")
             ELSE IF NotPositive(capital_float)
             THEN Raised("ValidationError", "Initial capital must be positive")
             ELSE IF AboveLimit(capital_float)
             THEN Raised("ValidationError", "Capital amount seems unreasonably high")
             ELSE Returned(capital_float)

----------------------------------------------------------------------------
(* ValidationService: the whole form *)

\* The body of the try block: the four validations in their order, stopping at
\* the first that raises, and the result record.
FormSteps(symbols, weights, capital, start_date, end_date, today) ==
    LET validated_symbols == ValidateSymbols(symbols)
        validated_weights == ValidateWeights(weights, Len(validated_symbols.value))
        validated_capital == ValidateCapital(capital)
        validated_dates == ValidateDateRange(start_date, end_date, today)
    IN  IF validated_symbols.status # "ok" THEN validated_symbols
        ELSE IF validated_weights.status # "ok" THEN validated_weights
        ELSE IF validated_capital.status # "ok" THEN validated_capital
        ELSE IF validated_dates.status # "ok" THEN validated_dates
        ELSE Returned([symbols |-> validated_symbols.value,
                       weights |-> validated_weights.value,
                       capital |-> validated_capital.value,
                       start_date |-> validated_dates.value[1],
                       end_date |-> validated_dates.value[2],
                       validation_timestamp |-> today])

\* validate_portfolio_form without its except clauses.
ValidatePortfolioFormUnguarded(symbols, weights, capital, start_date, end_date, today) ==
    FormSteps(symbols, weights, capital, start_date, end_date, today)

\* except ValidationError: raise; except Exception as e: raise ValidationError
ValidatePortfolioForm(symbols, weights, capital, start_date, end_date, today) ==
    LET r == FormSteps(symbols, weights, capital, start_date, end_date, today)
    IN  IF r.status \in {"ok", "ValidationError"} THEN r
        ELSE Raised("ValidationError", "Validation failed: " \o r.message)

----------------------------------------------------------------------------
(* Portfolio.from_form_data, with Stock.__post_init__ and Portfolio.__post_init__ *)

\* The arguments are strings: every weight an entry as above, the capital and
\* the dates sequences of characters. The dates are strings of ten characters
\* with digits where a date has them; strptime("%Y-%m-%d") reads such a string
\* when the separators are hyphens and the calendar has the date. Every
\* exception raised inside the try block leaves as a ValidationError.
FromFormData(symbols, weights, capital, start_date, end_date) ==
    LET weight_floats == [i \in DOMAIN weights |-> ParseFloat(weights[i])]
        capital_float == FloatOf(Strip(capital))
        n == MinInt(Len(symbols), Len(weight_floats))
        stocks == [k \in 1..n |-> [symbol |-> Strip(Upper(Strip(symbols[k]))),
                                   weight |-> weight_floats[k]]]
        \* Stock.__post_init__ raises for the k-th pair.
        StockRaises(k) ==
            \/ Strip(symbols[k]) = <<>>
            \/ ~(RLeq(MIN_WEIGHT, weight_floats[k]) /\ RLeq(weight_floats[k], MAX_WEIGHT))
        total_weight == FloatSum([k \in 1..n |-> stocks[k].weight], n)
        Read(str) == DatePatternMatches(str) /\ StrpTime(str).error = ""
        failed(message) == [status |-> "ValidationError", message |-> message,
                            symbols |-> <<>>, weights |-> <<>>, capital |-> capital_float]
    IN  IF \E i \in DOMAIN weights : weights[i].kind \in {"blank", "text"}
        THEN failed("Invalid numeric data")
        ELSE IF capital_float.kind = "error"
        THEN failed("Invalid numeric data")
        ELSE IF \E k \in 1..n : StockRaises(k)
        THEN failed("Portfolio creation failed")
        ELSE IF stocks = <<>>
        THEN failed("Portfolio creation failed")
        ELSE IF NotPositive(capital_float)
        THEN failed("Portfolio creation failed")
        ELSE IF RLess(WEIGHT_TOLERANCE, SumError(total_weight))
        THEN failed("Portfolio creation failed")
        ELSE IF ~Read(Strip(start_date)) \/ ~Read(Strip(end_date))
        THEN failed("Portfolio creation failed")
        ELSE IF StrpTime(Strip(start_date)).ordinal >= StrpTime(Strip(end_date)).ordinal
        THEN failed("Portfolio creation failed")
        ELSE [status |-> "ok", message |-> "",
              symbols |-> [k \in 1..n |-> stocks[k].symbol],
              weights |-> [k \in 1..n |-> stocks[k].weight],
              capital |-> capital_float]

----------------------------------------------------------------------------
(* VisualizationService: the monthly returns behind the heatmap *)

\* The timestamp of a return is the ordinal of its day.  The years of the
\* calendar the series can lie in:
Years == 2023..2025

\* (index.year, index.month) of a timestamp
YearMonth(t) ==
    CHOOSE ym \in Years \X (1..12) :
        /\ Ordinal(ym[1], ym[2], 1) <= t
        /\ t < Ordinal(ym[1], ym[2], 1) + DaysInMonth(ym[1], ym[2])

\* resample("M"): one bin for every calendar month from that of the first
\* timestamp to that of the last, whether the series has a return in it or not.
MonthBins(returns) ==
    LET \* Calendar months counted from year 0.
        MonthNumber(ym) == 12 * ym[1] + (ym[2] - 1)
        months == {MonthNumber(YearMonth(returns[i].time)) : i \in DOMAIN returns}
    IN  {k \in Years \X (1..12) :
            /\ \E lo \in months : lo <= MonthNumber(k)
            /\ \E hi \in months : MonthNumber(k) <= hi}

\* (1 + x).prod() over the returns of the first k periods that fall in the bin;
\* the product of no factor is 1.
RECURSIVE BinProduct(_, _, _)
BinProduct(returns, bin, k) ==
    IF k = 0 THEN One
    ELSE IF YearMonth(returns[k].time) = bin
    THEN RMul(BinProduct(returns, bin, k - 1), RAdd(One, returns[k].x))
    ELSE BinProduct(returns, bin, k - 1)

\* returns.resample("M").apply(lambda x: (1 + x).prod() - 1)
MonthlyReturns(returns) ==
    [bin \in MonthBins(returns) |-> RSub(BinProduct(returns, bin, Len(returns)), One)]

\* groupby([index.year, index.month]).first().unstack() * 100: a row for every
\* year and a column for every month that has a bin, NaN where the year has
\* no bin for the month.
PivotTable(monthly_returns) ==
    LET index == {bin[1] : bin \in DOMAIN monthly_returns}
        columns == {bin[2] : bin \in DOMAIN monthly_returns}
    IN  [cell \in index \X columns |->
            IF cell \in DOMAIN monthly_returns
            THEN RMul(monthly_returns[cell], Int2Q(100))
            ELSE NaN]

NoGrid == <<>>

\* The grid create_monthly_returns_heatmap draws, or AnalysisError.
CreateMonthlyReturnsHeatmap(returns) ==
    IF returns = <<>>
    THEN [status |-> "AnalysisError", pivot_table |-> NoGrid]
    ELSE [status |-> "ok", pivot_table |-> PivotTable(MonthlyReturns(returns))]

----------------------------------------------------------------------------
(* Inputs *)

Symbols == {"REE", "FMC"}

\* The table with the given cells, its rows in ascending or descending time.
TableOf(cols, m, cells, descending) ==
    LET Reverse(seq) == [i \in DOMAIN seq |-> seq[Len(seq) + 1 - i]]
        rows == [i \in 1..m |->
                    [time |-> i, v |-> [c \in Range(cols) |-> cells[<<i, c>>]]]]
    IN  [cols |-> cols, rows |-> IF descending THEN Reverse(rows) ELSE rows]

SymbolLists == {<<"REE">>, <<"FMC">>, <<"REE", "FMC">>, <<"FMC", "REE">>}

FillMethods == {"pad", "none"}

NoArgs == [symbols |-> <<>>, weights |-> <<>>, series |-> NoSeries, risk_free_rate |-> Zero]

NoOutcome == [op |-> "none", status |-> "none", series |-> NoSeries, metrics |-> NoMetrics]

NewAnalyzer == [is_none |-> TRUE, returns |-> <<>>, portfolio_returns |-> NoSeries]

NoQuotes == [s \in Symbols |-> [kind |-> "exception", frame |-> EmptyFrame]]

NoRequests == <<>>

NoSession == <<>>

----------------------------------------------------------------------------
(* The return engine called on a price table *)

Init ==
    LET \* A close price, or a gap.
        PriceCells == {NaN, Int2Q(1), Int2Q(2)}
        ColumnLists == {<<CloseCol("REE")>>, <<CloseCol("REE"), CloseCol("FMC")>>}
    IN
    /\ fill_method \in FillMethods
    /\ \E cols \in ColumnLists, m \in 1..MaxRows, desc \in BOOLEAN :
          \E cells \in [(1..m) \X Range(cols) -> PriceCells] :
             price_data = TableOf(cols, m, cells, desc)
    /\ args = NoArgs
    /\ outcome = NoOutcome
    /\ analyzer = NewAnalyzer
    /\ form = NoForm
    /\ validated = NoValidation
    /\ requests = NoRequests
    /\ session = NoSession
    /\ calls = <<>>
    /\ quotes = NoQuotes
    /\ pc = "idle"

\* portfolio_analyzer.calculate_portfolio_returns(price_data, symbols, weights)
ReturnsCall(symbols, weights) ==
    \E r \in {CalculatePortfolioReturns(price_data, symbols, weights, fill_method)} :
        /\ args' = [args EXCEPT !.symbols = symbols, !.weights = weights]
        /\ outcome' = [op |-> "returns", status |-> r.status,
                       series |-> r.series, metrics |-> NoMetrics]
        /\ analyzer' = Stored(analyzer, r)
        /\ price_data' = PriceDataAfterCall(price_data)
        /\ UNCHANGED <<fill_method, quotes, form, validated, requests, session, calls>>

CallReturns ==
    LET \* The calls made on the table: the symbols listed and their weights.  The last
        \* two pass fewer weights than symbols, and more.
        Requests ==
            {[symbols |-> <<"REE">>, weights |-> <<One>>],
             [symbols |-> <<"FMC">>, weights |-> <<One>>],
             [symbols |-> <<"REE", "FMC">>, weights |-> <<Q(1, 4), Q(3, 4)>>],
             [symbols |-> <<"FMC", "REE">>, weights |-> <<Q(1, 4), Q(3, 4)>>],
             [symbols |-> <<"REE", "FMC">>, weights |-> <<One>>],
             [symbols |-> <<"REE">>, weights |-> <<Q(1, 4), Q(3, 4)>>]}
    IN
    /\ pc = "idle"
    /\ \E req \in Requests : ReturnsCall(req.symbols, req.weights)
    /\ pc' = "returned"

\* portfolio_analyzer.calculate_performance_metrics(series, risk_free_rate)
MetricsCall(series, risk_free_rate) ==
    \E m \in {CalculatePerformanceMetrics(series, risk_free_rate)} :
        /\ args' = [args EXCEPT !.series = series, !.risk_free_rate = risk_free_rate]
        /\ outcome' = [op |-> "metrics", status |-> m.status,
                       series |-> outcome.series, metrics |-> m.metrics]
        /\ UNCHANGED <<fill_method, price_data, analyzer, quotes, form, validated,
                       requests, session, calls>>

\* The metrics of the series the returns call gave back, risk-free rate 0.0.
CallMetrics ==
    /\ pc = "returned"
    /\ outcome.op = "returns"
    /\ outcome.status = "ok"
    /\ MetricsCall(outcome.series, Zero)
    /\ pc' = "measured"

Next == CallReturns \/ CallMetrics

Spec == Init /\ [][Next]_vars

----------------------------------------------------------------------------
(* The metrics engine called on a return series *)

InitMetrics ==
    LET ReturnSeries ==
            LET ReturnValues == {Q(-3, 2), Int2Q(-1), Q(-1, 2), Zero, Q(1, 2), Q(7, 8)}
                SeriesOf(xs) == [i \in DOMAIN xs |-> [time |-> i, x |-> xs[i]]]
            IN
            UNION {{SeriesOf(xs) : xs \in [1..len -> ReturnValues]} : len \in 0..MaxPeriods}
        RiskFreeRates == {Zero, Q(1, 8)}
    IN
    /\ fill_method = "pad"
    /\ price_data = EmptyFrame
    /\ \E s \in ReturnSeries, rf \in RiskFreeRates :
          args = [NoArgs EXCEPT !.series = s, !.risk_free_rate = rf]
    /\ outcome = NoOutcome
    /\ analyzer = NewAnalyzer
    /\ form = NoForm
    /\ validated = NoValidation
    /\ requests = NoRequests
    /\ session = NoSession
    /\ calls = <<>>
    /\ quotes = NoQuotes
    /\ pc = "idle"

MeasureSeries ==
    /\ pc = "idle"
    /\ MetricsCall(args.series, args.risk_free_rate)
    /\ pc' = "measured"

SpecMetrics == InitMetrics /\ [][MeasureSeries]_vars

----------------------------------------------------------------------------
(* The request pipeline: fetch, close prices, returns, metrics *)

InitFetch ==
    LET QuoteAnswers ==
            LET QuoteFields == <<"close", "volume">>
                \* The frame of a symbol with a close price at each of the given times.
                FrameOf(times, close) ==
                    LET ordered == SortIndex([i \in 1..Cardinality(times) |->
                                       [time |-> CHOOSE t \in times :
                                                    Cardinality({u \in times : u < t}) = i - 1,
                                        v |-> <<>>]])
                    IN  [cols |-> QuoteFields,
                         rows |-> [i \in DOMAIN ordered |->
                                    [time |-> ordered[i].time,
                                     v |-> [f \in Range(QuoteFields) |->
                                              IF f = "close" THEN Int2Q(close[ordered[i].time])
                                              ELSE One]]]]
            IN
            {[kind |-> "exception", frame |-> EmptyFrame],
             [kind |-> "empty", frame |-> [cols |-> QuoteFields, rows |-> <<>>]]}
            \cup UNION {{[kind |-> "rows", frame |-> FrameOf(times, close)] :
                            close \in [times -> {1, 2}]} :
                        times \in (SUBSET (1..MaxQuoteRows)) \ {{}}}
        WeightsFor(symbols) ==
            IF Len(symbols) = 1 THEN <<One>> ELSE <<Q(1, 4), Q(3, 4)>>
    IN
    /\ fill_method \in FillMethods
    /\ price_data = EmptyFrame
    /\ \E symbols \in SymbolLists :
          args = [NoArgs EXCEPT !.symbols = symbols, !.weights = WeightsFor(symbols)]
    /\ outcome = NoOutcome
    /\ analyzer = NewAnalyzer
    /\ form = NoForm
    /\ validated = NoValidation
    /\ requests = NoRequests
    /\ session = NoSession
    /\ calls = <<>>
    /\ quotes \in [Symbols -> QuoteAnswers]
    /\ pc = "idle"

\* data_fetcher.fetch_historical_data(portfolio.symbols, start, end)
FetchStep ==
    /\ pc = "idle"
    /\ \E r \in {FetchHistoricalData(args.symbols, quotes)} :
          /\ outcome' = [op |-> "fetch", status |-> r.status,
                         series |-> NoSeries, metrics |-> NoMetrics]
          /\ price_data' = r.table
          /\ pc' = IF r.status = "ok" THEN "fetched" ELSE "failed"
    /\ UNCHANGED <<fill_method, args, analyzer, quotes, form, validated,
                   requests, session, calls>>

\* data_fetcher.get_close_prices(historical_data, portfolio.symbols)
CloseStep ==
    /\ pc = "fetched"
    /\ \E r \in {GetClosePrices(price_data, args.symbols)} :
          /\ outcome' = [op |-> "close", status |-> r.status,
                         series |-> NoSeries, metrics |-> NoMetrics]
          /\ price_data' = IF r.status = "ok" THEN r.table ELSE price_data
          /\ pc' = IF r.status = "ok" THEN "projected" ELSE "failed"
    /\ UNCHANGED <<fill_method, args, analyzer, quotes, form, validated,
                   requests, session, calls>>

\* portfolio_analyzer.calculate_portfolio_returns(close_prices, symbols, weights)
ReturnsStep ==
    /\ pc = "projected"
    /\ ReturnsCall(args.symbols, args.weights)
    /\ pc' = IF outcome'.status = "ok" THEN "returned" ELSE "failed"

SpecFetch == InitFetch /\ [][FetchStep \/ CloseStep \/ ReturnsStep \/ CallMetrics]_vars

----------------------------------------------------------------------------
(* ValidationService.validate_weights, called on a list of raw weights and then
   again on what it returned *)

InitWeights ==
    LET WeightEntries ==
            {Blank, Text, NanText} \cup
            {Numeral(Q(k, 10)) : k \in {-1, 0, 1, 2, 3, 4, 5, 7, 10, 11}} \cup
            {Numeral(Q(50005, 100000))}
    IN
    /\ fill_method = "pad"
    /\ price_data = EmptyFrame
    /\ args = NoArgs
    /\ outcome = NoOutcome
    /\ analyzer = NewAnalyzer
    /\ quotes = NoQuotes
    /\ \E len \in 0..MaxWeights, short \in BOOLEAN :
          \E weights \in [1..len -> WeightEntries] :
             form = [NoForm EXCEPT !.weights = weights,
                                   !.num_symbols = IF short THEN 2 ELSE len]
    /\ validated = NoValidation
    /\ requests = NoRequests
    /\ session = NoSession
    /\ calls = <<>>
    /\ pc = "idle"

\* validation_service.validate_weights(weights, num_symbols)
ValidateWeightsCall ==
    /\ pc = "idle"
    /\ \E r \in {ValidateWeights(form.weights, form.num_symbols)} :
          validated' = [op |-> "validate_weights", status |-> r.status,
                        message |-> r.message, value |-> r.value, first |-> <<>>]
    /\ pc' = "validated"
    /\ UNCHANGED <<fill_method, price_data, args, outcome, analyzer, quotes, form,
                   requests, session, calls>>

\* validate_weights([str(w) for w in validated_weights], num_symbols)
RevalidateWeightsCall ==
    /\ pc = "validated"
    /\ validated.op = "validate_weights"
    /\ validated.status = "ok"
    /\ \E r \in {ValidateWeights([i \in DOMAIN validated.value |->
                                    FormatFloat(validated.value[i])],
                                 form.num_symbols)} :
          validated' = [op |-> "revalidate_weights", status |-> r.status,
                        message |-> r.message, value |-> r.value,
                        first |-> validated.value]
    /\ pc' = "revalidated"
    /\ UNCHANGED <<fill_method, price_data, args, outcome, analyzer, quotes, form,
                   requests, session, calls>>

SpecWeights == InitWeights /\ [][ValidateWeightsCall \/ RevalidateWeightsCall]_vars

----------------------------------------------------------------------------
(* ValidationService.validate_symbols, called on a list of raw symbols *)

InitSymbols ==
    LET SymbolEntries ==
            {<<"R", "E", "E">>, <<"r", "e", "e">>, <<" ", "F", "M", "C", " ">>,
             <<"f", "m", "c", "\n">>, <<"A", "B", "C", "E">>, <<>>, <<" ", " ">>,
             <<"A", "B">>, <<"A", "B", "C", "E", "F">>, <<"R", "2", "E">>,
             <<"R", " ", "E">>}
        \* Lists at the size limit and one past it: as they are, with a blank entry,
        \* with a symbol twice, with a malformed symbol.
        LongSymbolLists ==
            LET \* Eleven symbols, all different and all well formed.
                PoolLetters == <<"A", "B", "C", "D", "E", "F", "G", "H", "I", "J", "K">>
                PoolList(n) == [i \in 1..n |-> <<"A", "A", PoolLetters[i]>>]
            IN
            {PoolList(MAX_PORTFOLIO_SIZE),
             PoolList(MAX_PORTFOLIO_SIZE + 1),
             [PoolList(MAX_PORTFOLIO_SIZE + 1) EXCEPT ![3] = <<" ">>],
             [PoolList(MAX_PORTFOLIO_SIZE + 1) EXCEPT ![3] = <<"A", "A", "A">>],
             [PoolList(MAX_PORTFOLIO_SIZE) EXCEPT ![3] = <<"a", "a", "a">>],
             [PoolList(MAX_PORTFOLIO_SIZE) EXCEPT ![3] = <<"A", "2">>]}
    IN
    /\ fill_method = "pad"
    /\ price_data = EmptyFrame
    /\ args = NoArgs
    /\ outcome = NoOutcome
    /\ analyzer = NewAnalyzer
    /\ quotes = NoQuotes
    /\ \/ \E len \in 0..MaxSymbols :
             \E symbols \in [1..len -> SymbolEntries] :
                form = [NoForm EXCEPT !.symbols = symbols]
       \/ \E symbols \in LongSymbolLists :
             form = [NoForm EXCEPT !.symbols = symbols]
    /\ validated = NoValidation
    /\ requests = NoRequests
    /\ session = NoSession
    /\ calls = <<>>
    /\ pc = "idle"

\* validation_service.validate_symbols(symbols)
ValidateSymbolsCall ==
    /\ pc = "idle"
    /\ \E r \in {ValidateSymbols(form.symbols)} :
          validated' = [op |-> "validate_symbols", status |-> r.status,
                        message |-> r.message, value |-> r.value, first |-> <<>>]
    /\ pc' = "validated"
    /\ UNCHANGED <<fill_method, price_data, args, outcome, analyzer, quotes, form,
                   requests, session, calls>>

SpecSymbols == InitSymbols /\ [][ValidateSymbolsCall]_vars

----------------------------------------------------------------------------
(* ValidationService.validate_date_range, called on two raw dates *)

DateText(y, m, d, sep) ==
    LET Digits2(n) == <<DigitChars[(n \div 10) + 1], DigitChars[(n % 10) + 1]>>
    IN
    Digits2(y \div 100) \o Digits2(y % 100) \o <<sep>> \o Digits2(m) \o <<sep>>
        \o Digits2(d)

InitDates ==
    LET \* Dates around the limits for the days the validator runs on, dates the
        \* calendar does not have, and strings that are not in the format.
        DateEntries ==
            {DateText(2015, 1, 1, "-"), DateText(2016, 11, 4, "-"), DateText(2016, 11, 5, "-"),
             DateText(2024, 1, 1, "-"), DateText(2024, 2, 29, "-"), DateText(2025, 2, 29, "-"),
             DateText(2024, 2, 30, "-"), DateText(2024, 13, 1, "-"), DateText(0, 1, 1, "-"),
             DateText(2026, 11, 3, "-"), DateText(2026, 11, 4, "-"),
             DateText(2024, 1, 1, "/"), DateText(2024, 6, 30, "/"),
             <<" ">> \o DateText(2024, 1, 1, "-") \o <<"\n">>,
             <<"2", "0", "2", "4", "-", "1", "-", "0", "5">>,
             <<>>}
        Todays == {Ordinal(2026, 11, 3), Ordinal(2024, 2, 29)}
    IN
    /\ fill_method = "pad"
    /\ price_data = EmptyFrame
    /\ args = NoArgs
    /\ outcome = NoOutcome
    /\ analyzer = NewAnalyzer
    /\ quotes = NoQuotes
    /\ \E start_date \in DateEntries, end_date \in DateEntries, today \in Todays :
          form = [NoForm EXCEPT !.start_date = start_date, !.end_date = end_date,
                                !.today = today]
    /\ validated = NoValidation
    /\ requests = NoRequests
    /\ session = NoSession
    /\ calls = <<>>
    /\ pc = "idle"

\* validation_service.validate_date_range(start_date, end_date)
ValidateDateRangeCall ==
    /\ pc = "idle"
    /\ \E r \in {ValidateDateRange(form.start_date, form.end_date, form.today)} :
          validated' = [op |-> "validate_date_range", status |-> r.status,
                        message |-> r.message, value |-> r.value, first |-> <<>>]
    /\ pc' = "validated"
    /\ UNCHANGED <<fill_method, price_data, args, outcome, analyzer, quotes, form,
                   requests, session, calls>>

SpecDates == InitDates /\ [][ValidateDateRangeCall]_vars

----------------------------------------------------------------------------
(* ValidationService.validate_capital, called on a raw amount *)

InitCapital ==
    LET CapitalBodies ==
            {<<>>, <<"a", "b", "c">>, <<"n", "a", "n">>, <<"N", "a", "N">>, <<"i", "n", "f">>,
             <<"0">>, <<"0", ".", "0">>, <<"0", ".", "5">>, <<".", "5">>, <<".">>,
             <<"1", ".", "5", ".", "2">>, <<"1", "0", "0", "0", "0", "0", "0", "0">>,
             <<"9">> \o [i \in 1..11 |-> "9"],
             CapitalLimit,
             CapitalLimit \o <<".", "0">>,
             <<"0">> \o CapitalLimit,
             <<"1">> \o [i \in 1..11 |-> "0"] \o <<"1">>,
             CapitalLimit \o <<"0">>}
        CapitalSigns == {<<>>, <<"+">>, <<"-">>}
        CapitalPaddings == {<<>>, <<" ">>}
    IN
    /\ fill_method = "pad"
    /\ price_data = EmptyFrame
    /\ args = NoArgs
    /\ outcome = NoOutcome
    /\ analyzer = NewAnalyzer
    /\ quotes = NoQuotes
    /\ \E pad \in CapitalPaddings, sign \in CapitalSigns, body \in CapitalBodies :
          form = [NoForm EXCEPT !.capital = pad \o sign \o body \o pad]
    /\ validated = NoValidation
    /\ requests = NoRequests
    /\ session = NoSession
    /\ calls = <<>>
    /\ pc = "idle"

\* validation_service.validate_capital(capital)
ValidateCapitalCall ==
    /\ pc = "idle"
    /\ \E r \in {ValidateCapital(form.capital)} :
          validated' = [op |-> "validate_capital", status |-> r.status,
                        message |-> r.message, value |-> r.value, first |-> <<>>]
    /\ pc' = "validated"
    /\ UNCHANGED <<fill_method, price_data, args, outcome, analyzer, quotes, form,
                   requests, session, calls>>

SpecCapital == InitCapital /\ [][ValidateCapitalCall]_vars

----------------------------------------------------------------------------
(* ValidationService.validate_portfolio_form, called on a submitted form *)

InitForm ==
    LET FormSymbolLists ==
            {<<>>,
             <<<<"R", "E", "E">>, <<"F", "M", "C">>>>,
             <<<<" ", "r", "e", "e">>, <<" ">>>>,
             <<<<"A", "B">>, <<"F", "M", "C">>>>,
             <<<<"R", "E", "E">>, NotAString>>}
        FormWeightLists ==
            {<<>>,
             <<Numeral(One)>>,
             <<Numeral(Q(1, 2)), Numeral(Q(1, 2))>>,
             <<Numeral(Q(7, 10)), Numeral(Q(1, 5))>>,
             <<Numeral(Q(1, 2)), Numeral(Q(49995, 100000))>>,
             <<Text, Numeral(Q(1, 2))>>}
        FormCapitals ==
            {<<>>, <<"0">>, <<"n", "a", "n">>, <<"a", "b", "c">>,
             <<"1", "0", "0", "0", "0", "0", "0", "0">>}
        FormDates ==
            {DateText(2024, 1, 1, "-"), DateText(2024, 6, 30, "-"), DateText(2024, 1, 1, "/"),
             DateText(2024, 2, 30, "-")}
    IN
    /\ fill_method = "pad"
    /\ price_data = EmptyFrame
    /\ args = NoArgs
    /\ outcome = NoOutcome
    /\ analyzer = NewAnalyzer
    /\ quotes = NoQuotes
    /\ \E symbols \in FormSymbolLists, weights \in FormWeightLists,
          capital \in FormCapitals, start_date \in FormDates, end_date \in FormDates :
          form = [symbols |-> symbols, weights |-> weights,
                  num_symbols |-> Len(symbols), capital |-> capital,
                  start_date |-> start_date, end_date |-> end_date,
                  today |-> Ordinal(2026, 11, 3)]
    /\ validated = NoValidation
    /\ requests = NoRequests
    /\ session = NoSession
    /\ calls = <<>>
    /\ pc = "idle"

\* validation_service.validate_portfolio_form(symbols, weights, capital,
\* start_date, end_date)
ValidatePortfolioFormCall ==
    /\ pc = "idle"
    /\ \E r \in {ValidatePortfolioForm(form.symbols, form.weights, form.capital,
                                       form.start_date, form.end_date, form.today)} :
          validated' = [op |-> "validate_portfolio_form", status |-> r.status,
                        message |-> r.message, value |-> r.value, first |-> <<>>]
    /\ pc' = "validated"
    /\ UNCHANGED <<fill_method, price_data, args, outcome, analyzer, quotes, form,
                   requests, session, calls>>

\* The handler of /api/analyze after a validation that returned:
\* Portfolio.from_form_data(symbols=validated_data["symbols"],
\*     weights=[str(w) for w in validated_data["weights"]],
\*     capital=str(validated_data["capital"]), ...)
FromFormDataCall ==
    LET \* str() of a float read from an optional sign and digits with at most
        \* one point, between 1e-4 and 1e16 when it is a number: the digits
        \* without leading zeros, a point, and the decimals without trailing
        \* zeros, at least one of each.
        Reverse(digits) == [i \in DOMAIN digits |-> digits[Len(digits) + 1 - i]]
        OrZero(digits) == IF digits = <<>> THEN <<"0">> ELSE digits
        Str(x) ==
            (IF x.neg THEN <<"-">> ELSE <<>>)
                \o (CASE x.kind = "nan" -> <<"n", "a", "n">>
                      [] x.kind = "inf" -> <<"i", "n", "f">>
                      [] OTHER -> OrZero(StripZeros(x.int)) \o <<".">>
                                    \o OrZero(Reverse(StripZeros(Reverse(x.frac)))))
    IN
    /\ pc = "validated"
    /\ validated.status = "ok"
    /\ \E r \in {FromFormData(validated.value.symbols,
                              [i \in DOMAIN validated.value.weights |->
                                  FormatFloat(validated.value.weights[i])],
                              Str(validated.value.capital),
                              validated.value.start_date, validated.value.end_date)} :
          outcome' = [op |-> "from_form_data", status |-> r.status, message |-> r.message,
                      symbols |-> r.symbols, weights |-> r.weights, capital |-> r.capital]
    /\ pc' = "created"
    /\ UNCHANGED <<fill_method, price_data, args, analyzer, quotes, form, validated,
                   requests, session, calls>>

SpecForm == InitForm /\ [][ValidatePortfolioFormCall \/ FromFormDataCall]_vars

----------------------------------------------------------------------------
(* get_close_prices of the data fetcher and of the first loader, called on a
   raw table *)

InitClose ==
    LET RawColumnLists ==
            {<<CloseCol("REE")>>,
             <<CloseCol("REE"), CloseCol("FMC")>>,
             <<CloseCol("FMC"), <<"REE", "volume">>, CloseCol("REE")>>}
        ProjectedSymbolLists == SymbolLists \cup {<<>>, <<"REE", "REE">>}
    IN
    /\ fill_method = "pad"
    /\ \E cols \in RawColumnLists, m \in 1..MaxQuoteRows, desc \in BOOLEAN,
          indexed \in BOOLEAN :
          \E cells \in [(1..m) \X Range(cols) -> {Int2Q(1), Int2Q(2)}] :
             price_data = IF indexed THEN TimeAsIndex(TableOf(cols, m, cells, desc), "datetime")
                          ELSE TableOf(cols, m, cells, desc)
    /\ \E symbols \in ProjectedSymbolLists : args = [NoArgs EXCEPT !.symbols = symbols]
    /\ outcome = NoOutcome
    /\ analyzer = NewAnalyzer
    /\ form = NoForm
    /\ validated = NoValidation
    /\ requests = NoRequests
    /\ session = NoSession
    /\ calls = <<>>
    /\ quotes = NoQuotes
    /\ pc = "idle"

\* data_fetcher.get_close_prices(combined_data, symbols)
CloseCall ==
    /\ pc = "idle"
    /\ \E r \in {GetClosePrices(price_data, args.symbols)} :
          outcome' = [op |-> "get_close_prices", status |-> r.status, table |-> r.table,
                      series |-> NoSeries, metrics |-> NoMetrics]
    /\ pc' = "projected"
    /\ UNCHANGED <<fill_method, price_data, args, analyzer, quotes, form, validated,
                   requests, session, calls>>

\* data_loader.get_close_prices(combined_data, symbols)
LegacyCloseCall ==
    /\ pc = "idle"
    /\ \E r \in {LegacyGetClosePrices(price_data, args.symbols)} :
          outcome' = [op |-> "legacy get_close_prices", status |-> r.status,
                      table |-> r.table, series |-> NoSeries, metrics |-> NoMetrics]
    /\ pc' = "projected"
    /\ UNCHANGED <<fill_method, price_data, args, analyzer, quotes, form, validated,
                   requests, session, calls>>

SpecClose == InitClose /\ [][CloseCall \/ LegacyCloseCall]_vars

----------------------------------------------------------------------------
(* VisualizationService.create_monthly_returns_heatmap, called on a series of
   returns *)

InitMonthly ==
    LET \* Days of four months, one of them a year later; no day of February 2024.
        ReturnDays ==
            {Ordinal(2023, 12, 29), Ordinal(2024, 1, 15), Ordinal(2024, 1, 31),
             Ordinal(2024, 3, 1), Ordinal(2024, 3, 29), Ordinal(2025, 1, 2)}
        MonthlyReturnValues == {Q(-5, 8), Q(-1, 2), Zero, Q(1, 2)}
        \* The series with the given returns on the given days, in ascending time.
        SeriesOn(days, x) ==
            [i \in 1..Cardinality(days) |->
                LET t == CHOOSE d \in days : Cardinality({u \in days : u < d}) = i - 1
                IN  [time |-> t, x |-> x[t]]]
    IN
    /\ fill_method = "pad"
    /\ price_data = EmptyFrame
    /\ \E days \in SUBSET ReturnDays :
          /\ Cardinality(days) <= MaxPeriods
          /\ \E x \in [days -> MonthlyReturnValues] :
                args = [NoArgs EXCEPT !.series = SeriesOn(days, x)]
    /\ outcome = NoOutcome
    /\ analyzer = NewAnalyzer
    /\ form = NoForm
    /\ validated = NoValidation
    /\ requests = NoRequests
    /\ session = NoSession
    /\ calls = <<>>
    /\ quotes = NoQuotes
    /\ pc = "idle"

\* visualization_service.create_monthly_returns_heatmap(portfolio_returns)
MonthlyHeatmapCall ==
    /\ pc = "idle"
    /\ \E r \in {CreateMonthlyReturnsHeatmap(args.series)} :
          outcome' = [op |-> "monthly", status |-> r.status,
                      pivot_table |-> r.pivot_table,
                      series |-> NoSeries, metrics |-> NoMetrics]
    /\ pc' = "drawn"
    /\ UNCHANGED <<fill_method, price_data, args, analyzer, quotes, form, validated,
                   requests, session, calls>>

\* calculate_performance_metrics(portfolio_returns)["total_return"] and the
\* monthly returns of create_monthly_returns_heatmap(portfolio_returns), both
\* of the same series; here in floating point of MantissaBits bits, every sum,
\* product and difference rounded, the factors of a product taken from the
\* first to the last.
TotalAndMonthlyCall ==
    LET RECURSIVE Prod(_, _)
        \* (1 + x).prod() over the first k periods of a series
        Prod(x, k) ==
            IF k = 0 THEN One
            ELSE FlRound(RMul(Prod(x, k - 1), FlRound(RAdd(One, x[k].x))))
        \* (1 + x).prod() - 1
        CompoundedReturn(x) == FlRound(RSub(Prod(x, Len(x)), One))
        InBin(bin) == SelectSeq(args.series, LAMBDA p : YearMonth(p.time) = bin)
    IN
    /\ pc = "idle"
    /\ outcome' =
          IF args.series = <<>>
          THEN [op |-> "total and monthly", status |-> "AnalysisError",
                total_return |-> NaN, monthly_returns |-> NoGrid,
                pivot_table |-> NoGrid, series |-> NoSeries, metrics |-> NoMetrics]
          ELSE [op |-> "total and monthly", status |-> "ok",
                total_return |-> CompoundedReturn(args.series),
                monthly_returns |-> [bin \in MonthBins(args.series) |->
                                        CompoundedReturn(InBin(bin))],
                pivot_table |-> NoGrid, series |-> NoSeries, metrics |-> NoMetrics]
    /\ pc' = "compounded"
    /\ UNCHANGED <<fill_method, price_data, args, analyzer, quotes, form, validated,
                   requests, session, calls>>

SpecMonthly == InitMonthly /\ [][MonthlyHeatmapCall \/ TotalAndMonthlyCall]_vars

----------------------------------------------------------------------------
(* Two /api/analyze requests and a caller of get_portfolio_summary on the
   analyzer of the module; a call runs to its end before the next begins *)

InitShared ==
    LET Prices(cols, m, ree, fmc) ==
            TableOf(cols, m,
                    [p \in (1..m) \X Range(cols) |->
                        Int2Q(IF p[2] = CloseCol("REE") THEN ree[p[1]] ELSE fmc[p[1]])],
                    FALSE)
        both == <<CloseCol("REE"), CloseCol("FMC")>>
        \* Three rows; two rows in descending time under an index of strings; two
        \* rows under an index of Timestamps; one row; no column of REE.
        Tables ==
            {Prices(both, 3, <<1, 2, 1>>, <<2, 1, 2>>),
             TimeAsIndex([Prices(both, 2, <<2, 1>>, <<1, 1>>) EXCEPT
                             !.rows = <<@[2], @[1]>>], "str"),
             TimeAsIndex(Prices(both, 2, <<1, 2>>, <<2, 2>>), "datetime"),
             Prices(both, 1, <<1>>, <<2>>),
             TimeAsIndex(Prices(<<CloseCol("FMC")>>, 2, <<1, 1>>, <<1, 2>>), "str")}
        Portfolios ==
            {[symbols |-> <<"REE">>, weights |-> <<One>>],
             [symbols |-> <<"FMC">>, weights |-> <<One>>],
             [symbols |-> <<"REE", "FMC">>, weights |-> <<Q(1, 4), Q(3, 4)>>]}
    IN
    /\ fill_method = "pad"
    /\ price_data = EmptyFrame
    /\ args = NoArgs
    /\ outcome = NoOutcome
    /\ analyzer = NewAnalyzer
    /\ form = NoForm
    /\ validated = NoValidation
    /\ quotes = NoQuotes
    /\ pc = "idle"
    /\ \E tables \in [1..2 -> Tables], portfolios \in [1..2 -> Portfolios] :
          requests = [r \in 1..2 |->
                        [close_prices |-> tables[r],
                         symbols |-> portfolios[r].symbols,
                         weights |-> portfolios[r].weights,
                         at |-> "close_prices",
                         portfolio_returns |-> NoSeries,
                         metrics |-> NoMetrics]]
    /\ session = NoSession
    /\ calls = <<>>

\* portfolio_returns = portfolio_analyzer.calculate_portfolio_returns(
\*     close_prices, portfolio.symbols, portfolio.weights), or the answer 500.
AnalyzeReturns(r) ==
    /\ requests[r].at = "close_prices"
    /\ \E res \in {CalculatePortfolioReturns(requests[r].close_prices,
                                            requests[r].symbols, requests[r].weights,
                                            fill_method)} :
          /\ requests' = [requests EXCEPT
                            ![r].close_prices = PriceDataAfterCall(@),
                            ![r].portfolio_returns = res.series,
                            ![r].at = IF res.status = "ok" THEN "portfolio_returns"
                                      ELSE "Analysis error"]
          /\ analyzer' = Stored(analyzer, res)
          /\ calls' = Append(calls, [op |-> "calculate_portfolio_returns", by |-> r,
                                     status |-> res.status, series |-> res.series,
                                     returns |-> res.returns])
    /\ UNCHANGED <<fill_method, price_data, args, outcome, quotes, pc, form, validated,
                   session>>

\* metrics = portfolio_analyzer.calculate_performance_metrics(portfolio_returns),
\* or the answer 500.
AnalyzeMetrics(r) ==
    /\ requests[r].at = "portfolio_returns"
    /\ \E m \in {HandlerMetrics(requests[r].portfolio_returns, analyzer)} :
          /\ requests' = [requests EXCEPT
                            ![r].metrics = m.metrics,
                            ![r].at = IF m.status = "ok" THEN "metrics"
                                      ELSE "Error calculating metrics"]
          /\ calls' = Append(calls, [op |-> "calculate_performance_metrics", by |-> r,
                                     status |-> m.status, series |-> NoSeries,
                                     returns |-> <<>>])
    /\ UNCHANGED <<fill_method, price_data, args, outcome, analyzer, quotes, pc, form,
                   validated, session>>

\* portfolio_analyzer.get_portfolio_summary()
SummaryCall ==
    /\ Cardinality({i \in DOMAIN calls : calls[i].op = "get_portfolio_summary"})
          < MaxSummaries
    /\ \E res \in {GetPortfolioSummary(analyzer)} :
          /\ outcome' = [op |-> "get_portfolio_summary", status |-> res.status,
                         data_points |-> res.data_points,
                         series |-> NoSeries, metrics |-> res.metrics]
          /\ calls' = Append(calls, [op |-> "get_portfolio_summary", by |-> 0,
                                     status |-> res.status, series |-> NoSeries,
                                     returns |-> <<>>])
    /\ UNCHANGED <<fill_method, price_data, args, analyzer, quotes, pc, form, validated,
                   requests, session>>

SpecShared ==
    InitShared
        /\ [][(\E r \in 1..2 : AnalyzeReturns(r) \/ AnalyzeMetrics(r)) \/ SummaryCall]_vars

----------------------------------------------------------------------------
(* The first Flask app: POST /analyze and GET /results of two browser sessions;
   a request is handled to its end before the next begins *)

\* analyze() up to the point where it stops: the flashed message and the step
\* that failed ("" when the pipeline ran to its end), and results_data. raises
\* is what the world outside does to the run: nothing, fetch_historical_data
\* raising DataLoaderError, another exception in the fetch, the returns or the
\* charts, or an exception in the HTML report.
LegacyAnalyze(symbols, weights, start, end, money, raises, unique_id) ==
    LET start_date == Strip(start)
        end_date == Strip(end)
        capital == Strip(money)
        weights_float == [i \in DOMAIN weights |-> ParseFloat(weights[i])]
        capital_float == FloatOf(capital)
        \* a > b for two strings of digits and hyphens of the same length
        RECURSIVE Greater(_, _)
        Greater(a, b) ==
            IF a = <<>> THEN FALSE
            ELSE IF Head(a) # Head(b)
            THEN IsDigit(Head(a)) /\ (~IsDigit(Head(b))
                                        \/ DigitValue(Head(a)) > DigitValue(Head(b)))
            ELSE Greater(Tail(a), Tail(b))
        Stops(step, message) ==
            [failed |-> step, flashed |-> message,
             results_data |-> [portfolio_symbols |-> symbols,
                               portfolio_weights |-> weights,
                               start_date |-> start_date, end_date |-> end_date,
                               capital |-> capital_float, unique_id |-> unique_id]]
    IN  IF symbols = <<>> \/ weights = <<>> \/ start_date = <<>> \/ end_date = <<>>
           \/ capital = <<>>
        THEN Stops("validation", "All fields are required.")
        ELSE IF Len(symbols) # Len(weights)
        THEN Stops("validation", "Number of symbols and weights must match.")
        ELSE IF \E i \in DOMAIN weights : weights[i].kind \in {"blank", "text"}
        THEN Stops("validation", "Weights must be numbers.")
        ELSE IF \E i \in DOMAIN weights :
                   RLess(weights_float[i], Zero) \/ RLess(One, weights_float[i])
        THEN Stops("validation", "Weights must be between 0 and 1.")
        ELSE IF RLess(WEIGHT_TOLERANCE,
                      SumError(FloatSum(weights_float, Len(weights_float))))
        THEN Stops("validation", "Portfolio weights must sum to 1.0.")
        ELSE IF ~DatePatternMatches(start_date) \/ ~DatePatternMatches(end_date)
        THEN Stops("validation", "Date format must be YYYY-MM-DD.")
        ELSE IF Greater(start_date, end_date)
        THEN Stops("validation", "Start date must be before end date.")
        ELSE IF capital_float.kind = "error" \/ NotPositive(capital_float)
        THEN Stops("validation", "Initial capital must be a positive number.")
        ELSE IF raises = "DataLoaderError"
        THEN Stops("fetch", "Error fetching data")
        ELSE IF raises = "Exception"
        THEN Stops("pipeline", "Unexpected error")
        ELSE IF raises = "report"
        THEN Stops("report", "Failed to generate QuantStats HTML report")
        ELSE Stops("", "")

\* The results under the session's key, a set of none or one, with the key
\* assigned before the HTML report is written.
SessionAfterReportStep(analysis_results, run) ==
    IF run.failed \in {"", "report"} THEN {run.results_data} ELSE analysis_results

\* session['analysis_results'] after analyze(): assigned once, after the report.
SessionAfterAnalyze(analysis_results, run) ==
    IF run.failed = "" THEN {run.results_data} ELSE analysis_results

\* results(): what it answers, given session.get('analysis_results').
LegacyResults(analysis_results, wants_json) ==
    IF analysis_results = {}
    THEN IF wants_json
         THEN [kind |-> "json error", status |-> 400, body |-> {}]
         ELSE [kind |-> "redirect to index", status |-> 302, body |-> {}]
    ELSE IF wants_json
         THEN [kind |-> "json", status |-> 200, body |-> analysis_results]
         ELSE [kind |-> "results.html", status |-> 200, body |-> analysis_results]

InitLegacy ==
    /\ fill_method = "pad"
    /\ price_data = EmptyFrame
    /\ args = NoArgs
    /\ outcome = NoOutcome
    /\ analyzer = NewAnalyzer
    /\ form = NoForm
    /\ validated = NoValidation
    /\ quotes = NoQuotes
    /\ requests = NoRequests
    /\ session = [b \in 1..2 |-> {}]
    /\ calls = <<>>
    /\ pc = "idle"

\* POST /analyze of browser session b. uuid4 is taken to give every request an
\* id of its own.
PostAnalyze(b) ==
    LET Forms ==
            {[symbols |-> <<"REE", "FMC">>,
              weights |-> <<Numeral(Q(1, 2)), Numeral(Q(1, 2))>>,
              start_date |-> DateText(2024, 1, 1, "-"),
              end_date |-> DateText(2024, 6, 30, "-"), capital |-> <<"1", "0", "0">>],
             [symbols |-> <<"REE", "FMC">>,
              weights |-> <<Numeral(Q(7, 10)), Numeral(Q(1, 5))>>,
              start_date |-> DateText(2024, 1, 1, "-"),
              end_date |-> DateText(2024, 6, 30, "-"), capital |-> <<"1", "0", "0">>],
             [symbols |-> <<"REE">>, weights |-> <<Numeral(One)>>,
              start_date |-> DateText(2024, 1, 1, "/"),
              end_date |-> DateText(2024, 6, 30, "-"), capital |-> <<"1", "0", "0">>]}
        Raises == {"nothing", "DataLoaderError", "Exception", "report"}
    IN
    /\ Len(calls) < MaxRequests
    /\ \E f \in Forms, raises \in Raises, wants_json \in BOOLEAN :
       \E run \in {LegacyAnalyze(f.symbols, f.weights, f.start_date, f.end_date,
                                 f.capital, raises, Len(calls) + 1)} :
          LET response ==
                  IF run.failed # ""
                  THEN [kind |-> "index.html", status |-> 200, body |-> {}]
                  ELSE IF wants_json
                  THEN [kind |-> "json redirect", status |-> 200, body |-> {}]
                  ELSE [kind |-> "redirect to results", status |-> 302, body |-> {}]
          IN  /\ session' = [session EXCEPT ![b] = SessionAfterAnalyze(@, run)]
              /\ outcome' = [op |-> "POST /analyze", status |-> run.failed,
                             flashed |-> run.flashed,
                             series |-> NoSeries, metrics |-> NoMetrics]
              /\ calls' = Append(calls, [op |-> "POST /analyze", by |-> b,
                                         failed |-> run.failed, response |-> response,
                                         results_data |-> IF run.failed = ""
                                                          THEN {run.results_data}
                                                          ELSE {},
                                         stored |-> session'[b]])
    /\ UNCHANGED <<fill_method, price_data, args, analyzer, quotes, pc, form, validated,
                   requests>>

\* GET /results of browser session b, with or without an Accept header (or a
\* body) of JSON.
GetResults(b) ==
    /\ Len(calls) < MaxRequests
    /\ \E wants_json \in BOOLEAN :
          /\ outcome' = [op |-> "GET /results", status |-> "",
                         flashed |-> IF session[b] = {} /\ ~wants_json
                                     THEN "No analysis results found. Please run an analysis first."
                                     ELSE "",
                         series |-> NoSeries, metrics |-> NoMetrics]
          /\ calls' = Append(calls, [op |-> "GET /results", by |-> b, failed |-> "",
                                     response |-> LegacyResults(session[b], wants_json),
                                     results_data |-> {},
                                     stored |-> session[b]])
    /\ UNCHANGED <<fill_method, price_data, args, analyzer, quotes, pc, form, validated,
                   requests, session>>

SpecLegacy == InitLegacy /\ [][\E b \in 1..2 : PostAnalyze(b) \/ GetResults(b)]_vars

----------------------------------------------------------------------------
(* What the properties below read off a state *)

Listed == Range(args.symbols)

HasCloseColumn(symbol) == CloseCol(symbol) \in Range(price_data.cols)

RowCount == Len(price_data.rows)

\* The price of a column at a time of the caller's table (times are distinct).
PriceAt(t, c) == RowAt(price_data.rows, t).v[c]

IsFirstTime(t) == \A u \in Times(price_data.rows) : t <= u

\* The time of the row before t when the rows are put in time order.
PrevTime(t) ==
    CHOOSE u \in Times(price_data.rows) :
        /\ u < t
        /\ \A w \in Times(price_data.rows) : w < t => w <= u

\* price[t] / price[t-1] - 1 on the caller's prices, NaN where either is missing.
SimpleReturn(t, c) ==
    IF IsFirstTime(t) THEN NaN
    ELSE RSub(RDiv(PriceAt(t, c), PriceAt(PrevTime(t), c)), One)

NoGapIn(cols) ==
    \A c \in cols : \A i \in DOMAIN price_data.rows : ~IsNaN(price_data.rows[i].v[c])

ReturnedFromReturns == outcome.op = "returns" /\ outcome.status = "ok"

----------------------------------------------------------------------------
(* C1 *)

\* C1: a calculate_portfolio_returns call whose price table lacks the close
\* column of a listed symbol raises AnalysisError and returns no series.
C1_MissingColumnRaises ==
    (outcome.op = "returns" /\ \E s \in Listed : ~HasCloseColumn(s))
        => (outcome.status = "AnalysisError" /\ outcome.series = NoSeries)

\* A call that lists a symbol with a column and one without has raised.
C1_Witness ==
    /\ outcome.op = "returns"
    /\ \E s \in Listed : ~HasCloseColumn(s)
    /\ \E s \in Listed : HasCloseColumn(s)
    /\ RowCount >= 2
    /\ outcome.status = "AnalysisError"

----------------------------------------------------------------------------
(* C2 *)

\* The history of the symbol came back with rows.
Yielded(symbol) == quotes[symbol].kind = "rows"

\* C2: fetch_historical_data raises DataFetchError exactly when no requested
\* symbol yielded rows; when some but not all did, get_close_prices on the full
\* list raises DataFetchError; so a return series is only ever computed when
\* every requested symbol yielded rows.
C2_PartialFetchSurfaces ==
    /\ outcome.op = "fetch"
          => (outcome.status = "DataFetchError" <=> \A s \in Listed : ~Yielded(s))
    /\ (outcome.op = "close" /\ (\E s \in Listed : Yielded(s)) /\ (\E s \in Listed : ~Yielded(s)))
          => outcome.status = "DataFetchError"
    /\ (outcome.op \in {"returns", "metrics"} /\ pc \in {"returned", "measured"})
          => \A s \in Listed : Yielded(s)

\* One requested symbol yielded rows, another raised or came back empty, the
\* fetch returned a table and get_close_prices has raised.
C2_Witness ==
    /\ outcome.op = "close"
    /\ \E s \in Listed : Yielded(s)
    /\ \E s \in Listed : quotes[s].kind = "exception"
    /\ outcome.status = "DataFetchError"
    /\ price_data.rows # <<>>

----------------------------------------------------------------------------
(* C3 *)

ListedGapless == (\A s \in Listed : HasCloseColumn(s)) /\ NoGapIn({CloseCol(s) : s \in Listed})

\* C3 as stated: M rows without a missing price for the listed symbols give
\* M-1 return rows, and the metrics of that series report total_periods = M-1.
C3_Original ==
    /\ (outcome.op = "returns" /\ ListedGapless)
          => (outcome.status = "ok" /\ Len(outcome.series) = RowCount - 1)
    /\ (outcome.op = "metrics" /\ ListedGapless)
          => (outcome.status = "ok" /\ outcome.metrics.total_periods = RowCount - 1)

TableGapless == (\A s \in Listed : HasCloseColumn(s)) /\ NoGapIn(Range(price_data.cols))

\* C3, amended: M rows without a missing price in any column give M-1 return
\* rows; the metrics of that series report total_periods = M-1 when M >= 2,
\* and the metrics call raises AnalysisError when M = 1 (the series is empty).
C3_RowsMinusOne ==
    /\ (outcome.op = "returns" /\ TableGapless)
          => (outcome.status = "ok" /\ Len(outcome.series) = RowCount - 1)
    /\ (outcome.op = "metrics" /\ TableGapless)
          => IF RowCount >= 2
             THEN outcome.status = "ok" /\ outcome.metrics.total_periods = RowCount - 1
             ELSE outcome.status = "AnalysisError"

\* The metrics of the returns of a gapless table of three rows or more, two
\* symbols listed, have been computed.
C3_Witness ==
    /\ outcome.op = "metrics"
    /\ TableGapless
    /\ RowCount >= 3
    /\ Cardinality(Listed) = 2
    /\ outcome.status = "ok"
    /\ outcome.metrics.total_periods = RowCount - 1

----------------------------------------------------------------------------
(* C4 *)

SeriesTimes == {outcome.series[k].time : k \in DOMAIN outcome.series}

\* C4 as stated: a time at which a listed symbol has no price is not in the
\* returned series, and the series has a value at a time only if every listed
\* symbol has a defined return price[t]/price[t-1] - 1 there.
C4_GapRowsDropped ==
    ReturnedFromReturns =>
        /\ \A t \in Times(price_data.rows) :
              (\E s \in Listed : IsNaN(PriceAt(t, CloseCol(s)))) => t \notin SeriesTimes
        /\ \A t \in SeriesTimes :
              \A s \in Listed : ~IsNaN(SimpleReturn(t, CloseCol(s)))

----------------------------------------------------------------------------
(* C5 *)

\* The sum over the first k listed symbols of weight times simple return at t.
RECURSIVE WeightedSimpleReturn(_, _)
WeightedSimpleReturn(t, k) ==
    IF k = 0 THEN Zero
    ELSE RAdd(WeightedSimpleReturn(t, k - 1),
              RMul(args.weights[k], SimpleReturn(t, CloseCol(args.symbols[k]))))

\* C5 as stated: with one weight per listed symbol, the value at every retained
\* time t is the sum of weight_i * (close_i[t] / close_i[previous row] - 1),
\* and the retained times ascend.
C5_WeightedSumOfSimpleReturns ==
    (ReturnedFromReturns /\ Len(args.weights) = Len(args.symbols)) =>
        /\ \A k \in DOMAIN outcome.series :
              outcome.series[k].x = WeightedSimpleReturn(outcome.series[k].time, Len(args.symbols))
        /\ \A k \in DOMAIN outcome.series :
              k > 1 => outcome.series[k - 1].time < outcome.series[k].time

----------------------------------------------------------------------------
(* What the metrics properties read off a state *)

Measured == outcome.op = "metrics" /\ outcome.status = "ok"

\* (1 + r_k) * ... * (1 + r_n), the product taken from the last period back.
RECURSIVE GrowthFrom(_, _)
GrowthFrom(s, k) ==
    IF k > Len(s) THEN One
    ELSE RMul(RAdd(One, s[k].x), GrowthFrom(s, k + 1))

\* c_t: the growth over the first t periods.
GrowthTo(s, t) == GrowthFrom(SubSeq(s, 1, t), 1)

\* m_t: the greatest of c_1 .. c_t.
PeakTo(s, t) ==
    CHOOSE m \in {GrowthTo(s, k) : k \in 1..t} :
        \A k \in 1..t : RLeq(GrowthTo(s, k), m)

\* d_t = (c_t - m_t) / m_t
DrawdownAt(s, t) == RDiv(RSub(GrowthTo(s, t), PeakTo(s, t)), PeakTo(s, t))

AllAboveMinusOne(s) == \A k \in DOMAIN s : RLess(Int2Q(-1), s[k].x)

NeverBelowPeak(s) == \A t \in DOMAIN s : GrowthTo(s, t) = PeakTo(s, t)

StrictlyIncreasing(s) ==
    /\ RLess(One, GrowthTo(s, 1))
    /\ \A t \in DOMAIN s : t > 1 => RLess(GrowthTo(s, t - 1), GrowthTo(s, t))

\* k flat periods, then one return of -0.5.
FlatThenHalved(s) ==
    /\ s # <<>>
    /\ s[Len(s)].x = Q(-1, 2)
    /\ \A k \in DOMAIN s : k < Len(s) => s[k].x = Zero

ConstantSeries(s) == s # <<>> /\ \A k \in DOMAIN s : s[k].x = s[1].x

----------------------------------------------------------------------------
(* C6 *)

\* C6: calculate_performance_metrics on an empty series raises AnalysisError
\* and returns no metrics record.
C6_EmptySeriesRaises ==
    (outcome.op = "metrics" /\ args.series = <<>>)
        => (outcome.status = "AnalysisError" /\ outcome.metrics = NoMetrics)

\* The metrics of an empty series have been asked for.
C6_Witness ==
    /\ outcome.op = "metrics"
    /\ args.series = <<>>
    /\ outcome.status = "AnalysisError"

----------------------------------------------------------------------------
(* C7 *)

\* C7: for a series that is not empty, total_return is the product of the
\* (1 + r_t) over all periods, less 1.
C7_TotalReturnCompounds ==
    (outcome.op = "metrics" /\ args.series # <<>>)
        => /\ outcome.status = "ok"
           /\ outcome.metrics.total_return = RSub(GrowthFrom(args.series, 1), One)

\* The metrics of a series of two periods or more whose compounded return
\* differs from the sum of its returns.
C7_Witness ==
    /\ Measured
    /\ Len(args.series) >= 2
    /\ outcome.metrics.total_return = RSub(GrowthFrom(args.series, 1), One)
    /\ outcome.metrics.total_return # SeriesSum(args.series, Len(args.series))
    /\ \A k \in DOMAIN args.series : args.series[k].x # Zero

----------------------------------------------------------------------------
(* C8 *)

\* C8 as stated: k >= 0 flat periods followed by one return of -0.5 give
\* max_drawdown = -0.5.
C8_HalvingDrawdown ==
    (outcome.op = "metrics" /\ FlatThenHalved(args.series))
        => (outcome.status = "ok" /\ outcome.metrics.max_drawdown = Q(-1, 2))

----------------------------------------------------------------------------
(* C9 *)

\* C9: for a series that is not empty with every return above -1, max_drawdown
\* is the least d_t = (c_t - m_t)/m_t; it is not positive; and it is 0 when the
\* cumulative path never falls below its running peak, as when it strictly
\* increases.
C9_MaxDrawdown ==
    (outcome.op = "metrics" /\ args.series # <<>> /\ AllAboveMinusOne(args.series)) =>
        /\ outcome.status = "ok"
        /\ \E t \in DOMAIN args.series :
              outcome.metrics.max_drawdown = DrawdownAt(args.series, t)
        /\ \A t \in DOMAIN args.series :
              RLeq(outcome.metrics.max_drawdown, DrawdownAt(args.series, t))
        /\ RLeq(outcome.metrics.max_drawdown, Zero)
        /\ NeverBelowPeak(args.series) => outcome.metrics.max_drawdown = Zero
        /\ StrictlyIncreasing(args.series) => NeverBelowPeak(args.series)

\* The metrics of a series that rose and then fell below its peak.
C9_Witness ==
    /\ Measured
    /\ AllAboveMinusOne(args.series)
    /\ Len(args.series) >= 3
    /\ RLess(Zero, args.series[1].x)
    /\ ~NeverBelowPeak(args.series)
    /\ RLess(outcome.metrics.max_drawdown, Zero)

----------------------------------------------------------------------------
(* C10 *)

\* C10 as stated: sharpe_ratio is (annualized_return - risk_free_rate) over
\* volatility when volatility > 0 and 0 otherwise, and it is 0 for every
\* constant series.
C10_SharpeGuard ==
    Measured =>
        /\ outcome.metrics.sharpe_ratio.zero
              = ~RLess(Zero, outcome.metrics.volatility.variance)
        /\ outcome.metrics.sharpe_ratio.annualized = outcome.metrics.annualized_return
        /\ outcome.metrics.sharpe_ratio.risk_free_rate = args.risk_free_rate
        /\ outcome.metrics.sharpe_ratio.over = outcome.metrics.volatility
        /\ ConstantSeries(args.series) => outcome.metrics.sharpe_ratio.zero

----------------------------------------------------------------------------
(* C11 *)

\* The periods 1..k of s whose return is strictly greater than zero, counted
\* one period at a time.
RECURSIVE WinsUpTo(_, _)
WinsUpTo(s, k) ==
    IF k = 0 THEN 0
    ELSE WinsUpTo(s, k - 1) + (IF Sign(s[k].x.n) * Sign(s[k].x.d) > 0 THEN 1 ELSE 0)

AllPositive(s) == \A k \in DOMAIN s : RLess(Zero, s[k].x)

AllZero(s) == \A k \in DOMAIN s : s[k].x = Zero

\* C11: for a series that is not empty, win_rate is the number of periods
\* with a return strictly greater than 0 divided by total_periods, it lies
\* between 0 and 1, it is 1 when every return is positive and 0 when every
\* return is zero.
C11_WinRate ==
    (outcome.op = "metrics" /\ args.series # <<>>)
        => /\ outcome.status = "ok"
           /\ outcome.metrics.total_periods = Len(args.series)
           /\ outcome.metrics.win_rate =
                  Q(WinsUpTo(args.series, Len(args.series)), outcome.metrics.total_periods)
           /\ RLeq(Zero, outcome.metrics.win_rate)
           /\ RLeq(outcome.metrics.win_rate, One)
           /\ AllPositive(args.series) => outcome.metrics.win_rate = One
           /\ AllZero(args.series) => outcome.metrics.win_rate = Zero

\* The metrics of a series that has a winning period, a period of return
\* zero and a losing period: win_rate is one third.
C11_Witness ==
    /\ Measured
    /\ Len(args.series) = 3
    /\ \E i, j, k \in DOMAIN args.series :
          /\ RLess(Zero, args.series[i].x)
          /\ args.series[j].x = Zero
          /\ RLess(args.series[k].x, Zero)
    /\ outcome.metrics.win_rate = Q(1, 3)

----------------------------------------------------------------------------
(* C12 *)

WeightsValidated == validated.op = "validate_weights"

\* The numbers the raw weights parse to, entry by entry.
ParsedWeights == [i \in DOMAIN form.weights |-> ParseFloat(form.weights[i])]

\* x_1 + ... + x_k, exactly.
RECURSIVE ExactSum(_, _)
ExactSum(xs, k) == IF k = 0 THEN Zero ELSE RAdd(ExactSum(xs, k - 1), xs[k])

\* |x - 1| > 1/10000, that is 10000 * |n - d| > d for x = n/d.
OffOne(x) == ~IsNaN(x) /\ Abs(RSub(x, One).n) > RSub(x, One).d \div 10000

\* One of the grounds on which validate_weights is said to refuse a list.
WeightsRefusable ==
    \/ form.weights = <<>>
    \/ Len(form.weights) # form.num_symbols
    \/ \E i \in DOMAIN form.weights : form.weights[i].kind \in {"blank", "text"}
    \/ \E i \in DOMAIN form.weights :
          ~(RLeq(Zero, ParsedWeights[i]) /\ RLeq(ParsedWeights[i], One))
    \/ OffOne(ExactSum(ParsedWeights, Len(ParsedWeights)))

\* C12: validate_weights(raw, n) raises ValidationError when the list is
\* empty, when its length is not n, when an entry is blank or is not a number,
\* when a parsed value is outside [0, 1] or when the parsed values sum to more
\* than 1e-4 away from 1; in every other case it returns n weights.
C12_WeightsRefusedOrReturned ==
    WeightsValidated =>
        IF WeightsRefusable
        THEN validated.status = "ValidationError" /\ validated.value = <<>>
        ELSE validated.status = "ok" /\ Len(validated.value) = form.num_symbols

\* A list of three raw weights, none of them refusable, was accepted.
C12_Witness ==
    /\ WeightsValidated
    /\ Len(form.weights) = 3
    /\ form.num_symbols = 3
    /\ ~WeightsRefusable
    /\ validated.status = "ok"
    /\ Len(validated.value) = 3

----------------------------------------------------------------------------
(* C13 *)

WeightsRevalidated == validated.op = "revalidate_weights"

\* C13: when validate_weights succeeds, each returned weight is the raw weight
\* divided by the raw sum and the returned weights sum to exactly 1.0; and
\* validate_weights called again on the returned weights succeeds and returns
\* them unchanged.
C13_NormalizedFixedPoint ==
    /\ (WeightsValidated /\ validated.status = "ok") =>
          /\ \A i \in DOMAIN validated.value :
                validated.value[i] =
                    FlQuotient(FormMantissaBits, ParsedWeights[i],
                               FloatSum(ParsedWeights, Len(ParsedWeights)))
          /\ FloatSum(validated.value, Len(validated.value)) = One
    /\ WeightsRevalidated =>
          /\ validated.status = "ok"
          /\ validated.value = validated.first

----------------------------------------------------------------------------
(* C14 *)

SymbolsValidated == validated.op = "validate_symbols"

\* The positions of the entries that are not blank.
KeptPositions == {i \in DOMAIN form.symbols : \E j \in DOMAIN form.symbols[i] :
                                                 ~IsSpace(form.symbols[i][j])}

\* The k-th smallest element of a set of positions.
RECURSIVE KthPosition(_, _)
KthPosition(S, k) ==
    LET least == CHOOSE i \in S : \A j \in S : i <= j
    IN  IF k = 1 THEN least ELSE KthPosition(S \ {least}, k - 1)

\* The trimmed, uppercased, non-blank entries in their input order.
ExpectedSymbols ==
    [k \in 1..Cardinality(KeptPositions) |->
        Upper(Strip(form.symbols[KthPosition(KeptPositions, k)]))]

ThreeOrFourLetters(str) ==
    /\ Len(str) = 3 \/ Len(str) = 4
    /\ \A i \in DOMAIN str :
          str[i] \in {"A", "B", "C", "D", "E", "F", "G", "H", "I", "J", "K", "M", "R"}

SymbolsRefusable ==
    \/ ExpectedSymbols = <<>>
    \/ Len(ExpectedSymbols) > 10
    \/ \E i, j \in DOMAIN ExpectedSymbols : i # j /\ ExpectedSymbols[i] = ExpectedSymbols[j]
    \/ \E i \in DOMAIN ExpectedSymbols : ~ThreeOrFourLetters(ExpectedSymbols[i])

\* C14: validate_symbols returns the trimmed, uppercased, non-blank entries of
\* the input in their input order, and raises ValidationError instead when
\* that list is empty, has more than 10 entries, holds a symbol twice or holds
\* an entry that is not 3 or 4 letters A-Z.
C14_SymbolsCleanedOrRefused ==
    SymbolsValidated =>
        IF SymbolsRefusable
        THEN validated.status = "ValidationError" /\ validated.value = <<>>
        ELSE validated.status = "ok" /\ validated.value = ExpectedSymbols

\* A list with a blank entry and two symbols in lower case or with white
\* space around them was cleaned and returned in the order given.
C14_Witness ==
    /\ SymbolsValidated
    /\ validated.status = "ok"
    /\ Len(validated.value) = 2
    /\ Len(form.symbols) = 3
    /\ validated.value # <<form.symbols[1], form.symbols[2]>>
    /\ validated.value[1] = <<"F", "M", "C">>
    /\ validated.value[2] = <<"R", "E", "E">>

----------------------------------------------------------------------------
(* C15 *)

DatesValidated == validated.op = "validate_date_range"

\* str has the form YYYY-MM-DD.
IsoForm(str) ==
    /\ Len(str) = 10
    /\ \A i \in DOMAIN str :
          IF i \in {5, 8} THEN str[i] = "-"
          ELSE str[i] \in {"0", "1", "2", "3", "4", "5", "6", "7", "8", "9"}

YearOf(str) == Number(SubSeq(str, 1, 4))

MonthOf(str) == Number(SubSeq(str, 6, 7))

DayOf(str) == Number(SubSeq(str, 9, 10))

\* str, of the form YYYY-MM-DD, names a day of the calendar.
RealDate(str) ==
    /\ YearOf(str) >= 1
    /\ MonthOf(str) >= 1 /\ MonthOf(str) <= 12
    /\ DayOf(str) >= 1 /\ DayOf(str) <= DaysInMonth(YearOf(str), MonthOf(str))

DayOfText(str) == Ordinal(YearOf(str), MonthOf(str), DayOf(str))

DateRangeAcceptable ==
    LET start == Strip(form.start_date)
        end == Strip(form.end_date)
    IN  /\ IsoForm(start) /\ IsoForm(end)
        /\ RealDate(start) /\ RealDate(end)
        /\ DayOfText(start) < DayOfText(end)
        /\ DayOfText(end) - DayOfText(start) <= 3650
        /\ DayOfText(end) <= form.today
        /\ form.today - DayOfText(start) <= 3650

\* C15: validate_date_range returns the trimmed pair only when both strings
\* have the form YYYY-MM-DD and are real dates, start < end, the span is at
\* most 3650 days, end is not after today and start is at most 3650 days
\* before today; otherwise it raises ValidationError; a start date written
\* with another separator is refused whatever the end date is.
C15_DateRange ==
    DatesValidated =>
        /\ IF DateRangeAcceptable
           THEN /\ validated.status = "ok"
                /\ validated.value = <<Strip(form.start_date), Strip(form.end_date)>>
           ELSE validated.status = "ValidationError" /\ validated.value = <<>>
        /\ (Len(form.start_date) = 10 /\ form.start_date[5] = "/")
              => validated.status = "ValidationError"

\* A range that starts exactly 3650 days before today and ends today was
\* accepted.
C15_Witness ==
    /\ DatesValidated
    /\ validated.status = "ok"
    /\ form.today - DayOfText(Strip(form.start_date)) = 3650
    /\ DayOfText(Strip(form.end_date)) = form.today

----------------------------------------------------------------------------
(* C16 *)

CapitalValidated == validated.op = "validate_capital"

\* What the trimmed amount reads as.
CapitalRead == FloatOf(Strip(form.capital))

\* The trimmed amount is a number v with 0 < v <= 1e12.
CapitalInRange ==
    /\ CapitalRead.kind = "number"
    /\ ~CapitalRead.neg
    /\ ~(AllZeros(CapitalRead.int) /\ AllZeros(CapitalRead.frac))
    /\ LET int == StripZeros(CapitalRead.int)
       IN  \/ Len(int) < 13
           \/ int = CapitalLimit /\ AllZeros(CapitalRead.frac)

\* C16: validate_capital returns a value v only when the trimmed input parses
\* as a number with 0 < v <= 1e12, and then returns that number; for a blank
\* input, an unparsable input, v <= 0 or v > 1e12 it raises ValidationError.
C16_CapitalInRange ==
    CapitalValidated =>
        IF CapitalInRange
        THEN validated.status = "ok" /\ validated.value = CapitalRead
        ELSE validated.status = "ValidationError"

----------------------------------------------------------------------------
(* C17 *)

FormValidated == validated.op = "validate_portfolio_form"

SymbolsStep == ValidateSymbols(form.symbols)

WeightsStep == ValidateWeights(form.weights, Len(SymbolsStep.value))

CapitalStep == ValidateCapital(form.capital)

DatesStep == ValidateDateRange(form.start_date, form.end_date, form.today)

\* The steps in the order they run.
FormStepsInOrder == <<SymbolsStep, WeightsStep, CapitalStep, DatesStep>>

AllStepsSucceed == \A k \in 1..4 : FormStepsInOrder[k].status = "ok"

\* The first step that does not succeed.
FirstFailingStep ==
    FormStepsInOrder[CHOOSE k \in 1..4 :
        /\ FormStepsInOrder[k].status # "ok"
        /\ \A j \in 1..(k - 1) : FormStepsInOrder[j].status = "ok"]

\* C17: validate_portfolio_form validates the symbols, the weights against
\* the number of cleaned symbols, the capital and the date range in that
\* order; it returns a record only when all four succeed, and otherwise raises
\* one ValidationError, that of the first failing step, never an exception of
\* another kind and never part of a result.
C17_FormAllOrNothing ==
    FormValidated =>
        IF AllStepsSucceed
        THEN /\ validated.status = "ok"
             /\ validated.value.symbols = SymbolsStep.value
             /\ validated.value.weights = WeightsStep.value
             /\ Len(validated.value.weights) = Len(validated.value.symbols)
             /\ validated.value.capital = CapitalStep.value
             /\ <<validated.value.start_date, validated.value.end_date>> = DatesStep.value
        ELSE /\ validated.status = "ValidationError"
             /\ validated.value = <<>>
             /\ FirstFailingStep.status = "ValidationError"
                   => validated.message = FirstFailingStep.message

\* A form whose symbols and weights are good and whose capital is not was
\* refused with the capital's error, though its date range is bad as well.
C17_Witness ==
    /\ FormValidated
    /\ SymbolsStep.status = "ok"
    /\ WeightsStep.status = "ok"
    /\ CapitalStep.status = "ValidationError"
    /\ DatesStep.status = "ValidationError"
    /\ validated.status = "ValidationError"
    /\ validated.message = CapitalStep.message
    /\ validated.message # DatesStep.message

----------------------------------------------------------------------------
(* C18 *)

Projected == outcome.op \in {"get_close_prices", "legacy get_close_prices"}

\* The error each of the two functions raises.
ProjectionError ==
    IF outcome.op = "get_close_prices" THEN "DataFetchError" ELSE "DataLoaderError"

\* `time` or the close column of a listed symbol is not a column of the table.
RequiredColumnAbsent ==
    \/ ~HasTimeColumn(price_data)
    \/ \E i \in DOMAIN args.symbols :
          \A j \in DOMAIN price_data.cols : price_data.cols[j] # <<args.symbols[i], "close">>

\* C18: get_close_prices(table, symbols) returns a table whose columns are
\* `time` and then the close column of each symbol in the order given, with
\* as many rows as the input; it raises DataFetchError (DataLoaderError in
\* the first loader) when `time` or a required close column is absent.
C18_ProjectionColumns ==
    Projected =>
        IF RequiredColumnAbsent
        THEN outcome.status = ProjectionError
        ELSE /\ outcome.status = "ok"
             /\ HasTimeColumn(outcome.table)
             /\ Len(outcome.table.cols) = Len(args.symbols)
             /\ \A i \in DOMAIN args.symbols :
                   outcome.table.cols[i] = <<args.symbols[i], "close">>
             /\ Len(outcome.table.rows) = Len(price_data.rows)
             /\ \A i \in DOMAIN price_data.rows :
                   /\ outcome.table.rows[i].time = price_data.rows[i].time
                   /\ DOMAIN outcome.table.rows[i].v = Range(outcome.table.cols)
                   /\ \A c \in Range(outcome.table.cols) :
                         outcome.table.rows[i].v[c] = price_data.rows[i].v[c]

\* The close prices of FMC and REE were taken, in the order asked for, out of
\* a table that holds them in another order among other columns.
C18_Witness ==
    /\ Projected
    /\ outcome.status = "ok"
    /\ args.symbols = <<"REE", "FMC">>
    /\ Len(price_data.cols) = 3
    /\ price_data.cols[1] = <<"FMC", "close">>
    /\ outcome.table.cols = <<<<"REE", "close">>, <<"FMC", "close">>>>
    /\ Len(outcome.table.rows) = 2

----------------------------------------------------------------------------
(* C19 *)

\* C19: the rows of the table get_close_prices returns are in ascending order
\* of `time`, whatever the order of the rows of the table passed to it.
C19_ProjectionSorted ==
    (Projected /\ outcome.status = "ok") =>
        \A i, j \in DOMAIN outcome.table.rows :
            i < j => outcome.table.rows[i].time < outcome.table.rows[j].time

----------------------------------------------------------------------------
(* C20 *)

MonthlyDrawn == outcome.op = "monthly" /\ outcome.status = "ok"

\* The periods of the series that fall in month m of year y.
PeriodsIn(y, m) ==
    {i \in DOMAIN args.series :
        /\ Ordinal(y, m, 1) <= args.series[i].time
        /\ args.series[i].time < Ordinal(y, m, 1) + DaysInMonth(y, m)}

\* The product of (1 + r) over a set of periods.
RECURSIVE Compounded(_)
Compounded(periods) ==
    IF periods = {} THEN One
    ELSE LET i == CHOOSE j \in periods : TRUE
         IN  RMul(RAdd(One, args.series[i].x), Compounded(periods \ {i}))

\* The cell of the grid for month m of year y is missing.
CellMissing(y, m) ==
    \/ <<y, m>> \notin DOMAIN outcome.pivot_table
    \/ IsNaN(outcome.pivot_table[<<y, m>>])

\* C20: the monthly aggregation gives the cell of every (year, month) that has
\* returns their compounded return, the product of (1 + r) less 1 (the grid
\* holds it as a percentage), and leaves the cell of a (year, month) with no
\* return in the series missing, not zero.
C20_MonthlyGrid ==
    MonthlyDrawn =>
        \A y \in Years, m \in 1..12 :
            IF PeriodsIn(y, m) # {}
            THEN /\ ~CellMissing(y, m)
                 /\ outcome.pivot_table[<<y, m>>] =
                        RMul(RSub(Compounded(PeriodsIn(y, m)), One), Int2Q(100))
            ELSE CellMissing(y, m)

----------------------------------------------------------------------------
(* C28 *)

\* C28 as stated: for every series that is not empty, one period included,
\* total_return, annualized_return, volatility, sharpe_ratio, max_drawdown and
\* win_rate of the returned record are defined numbers.
C28_MetricsDefined ==
    (outcome.op = "metrics" /\ args.series # <<>>) =>
        /\ outcome.status = "ok"
        /\ ~IsNaN(outcome.metrics.total_return)
        /\ ~IsNaN(outcome.metrics.annualized_return.base)
        /\ ~IsNaN(outcome.metrics.volatility.variance)
        /\ outcome.metrics.sharpe_ratio.zero
              \/ ~IsNaN(outcome.metrics.sharpe_ratio.over.variance)
        /\ ~IsNaN(outcome.metrics.max_drawdown)
        /\ ~IsNaN(outcome.metrics.win_rate)

----------------------------------------------------------------------------
(* C24 *)

\* C24 as stated: a calculate_portfolio_returns call with fewer weights than
\* listed symbols raises AnalysisError, so no returned series leaves a listed
\* symbol without a weight.
C24_ShortWeightsRaise ==
    (outcome.op = "returns" /\ Len(args.weights) < Len(args.symbols))
        => (outcome.status = "AnalysisError" /\ outcome.series = NoSeries)

----------------------------------------------------------------------------
(* C25 *)

\* The caller's table without the columns that are not the close column of a
\* listed symbol: same times, same listed close prices.
ListedColumnsOnly ==
    LET keep == {CloseCol(s) : s \in Listed}
    IN  [price_data EXCEPT
            !.cols = SelectSeq(price_data.cols, LAMBDA c : c \in keep),
            !.rows = [i \in DOMAIN price_data.rows |->
                        [time |-> price_data.rows[i].time,
                         v |-> [c \in keep \cap Range(price_data.cols) |->
                                  price_data.rows[i].v[c]]]]]

\* C25 as stated: the series of a calculate_portfolio_returns call is the
\* series of the same call on any table with the same times and the same close
\* columns of the listed symbols; here, on the table stripped of every other
\* column.
C25_OtherColumnsIgnored ==
    ReturnedFromReturns =>
        outcome.series =
            CalculatePortfolioReturns(ListedColumnsOnly, args.symbols, args.weights,
                                      fill_method).series

----------------------------------------------------------------------------
(* C21 *)

\* What the returns call of request r gives when nothing else runs.
AloneReturns(r) ==
    CalculatePortfolioReturns(requests[r].close_prices, requests[r].symbols,
                              requests[r].weights, fill_method)

\* What the metrics call of request r gives when nothing else runs.
AloneMetrics(r) == CalculatePerformanceMetrics(AloneReturns(r).series, Zero)

\* C21: with two requests on the shared analyzer, under every interleaving of
\* their calculate_portfolio_returns and calculate_performance_metrics calls,
\* each request holds the return series and the metrics (or gets the error) it
\* would hold had it run alone.
C21_AsIfAlone ==
    \A r \in DOMAIN requests :
        /\ requests[r].at = "Analysis error" => AloneReturns(r).status = "AnalysisError"
        /\ requests[r].at \in {"portfolio_returns", "metrics", "Error calculating metrics"}
              => /\ AloneReturns(r).status = "ok"
                 /\ requests[r].portfolio_returns = AloneReturns(r).series
        /\ requests[r].at = "metrics"
              => AloneMetrics(r).status = "ok" /\ requests[r].metrics = AloneMetrics(r).metrics
        /\ requests[r].at = "Error calculating metrics"
              => AloneMetrics(r).status = "AnalysisError"

\* Request 1 got its series, then request 2 got a different one, which is the
\* one the analyzer now holds, and then request 1 got its metrics.
C21_Witness ==
    /\ Len(calls) >= 3
    /\ calls[1].op = "calculate_portfolio_returns" /\ calls[1].by = 1
    /\ calls[2].op = "calculate_portfolio_returns" /\ calls[2].by = 2
    /\ calls[3].op = "calculate_performance_metrics" /\ calls[3].by = 1
    /\ requests[1].at = "metrics"
    /\ requests[2].at \in {"portfolio_returns", "metrics"}
    /\ requests[1].portfolio_returns # requests[2].portfolio_returns
    /\ analyzer.portfolio_returns = requests[2].portfolio_returns
    /\ requests[1].metrics = AloneMetrics(1).metrics

----------------------------------------------------------------------------
(* C22 *)

\* The calculate_portfolio_returns calls among the first k calls that returned.
ReturnedCalls(k) ==
    {i \in 1..k : calls[i].op = "calculate_portfolio_returns" /\ calls[i].status = "ok"}

\* The most recent of them.
LastReturned(k) == calls[CHOOSE i \in ReturnedCalls(k) : \A j \in ReturnedCalls(k) : j <= i]

\* The series it returned.
LastReturnedSeries(k) == LastReturned(k).series

\* C22 as stated: get_portfolio_summary raises AnalysisError as long as no
\* calculate_portfolio_returns call has succeeded, and after a successful one
\* it succeeds with data_points the length of the series that call returned.
C22_SummaryAfterReturns ==
    (calls # <<>> /\ Last(calls).op = "get_portfolio_summary") =>
        IF ReturnedCalls(Len(calls)) = {}
        THEN outcome.status = "AnalysisError"
        ELSE /\ outcome.status = "ok"
             /\ outcome.data_points = Len(LastReturnedSeries(Len(calls)))

----------------------------------------------------------------------------
(* C26 *)

\* C26: after any sequence of calls on one analyzer, self.returns and
\* self.portfolio_returns are both unset, when no calculate_portfolio_returns
\* call has succeeded, or are the per-symbol returns and the series of the most
\* recent call that did, with the same timestamps; so a call that raises, a
\* metrics call and a summary call leave both as they were.
C26_StoredTogether ==
    LET k == Len(calls)
    IN  IF ReturnedCalls(k) = {}
        THEN analyzer = NewAnalyzer
        ELSE /\ ~analyzer.is_none
             /\ analyzer.portfolio_returns = LastReturnedSeries(k)
             /\ analyzer.returns = LastReturned(k).returns
             /\ Len(analyzer.returns) = Len(analyzer.portfolio_returns)
             /\ \A i \in DOMAIN analyzer.returns :
                   analyzer.returns[i].time = analyzer.portfolio_returns[i].time

\* A returns call succeeded with two periods, then the returns call of the
\* other request raised and a metrics call was made; the analyzer holds the two
\* periods.
C26_Witness ==
    /\ Len(calls) = 3
    /\ calls[1].op = "calculate_portfolio_returns" /\ calls[1].status = "ok"
    /\ Len(calls[1].series) = 2
    /\ calls[2].op = "calculate_portfolio_returns" /\ calls[2].status = "AnalysisError"
    /\ calls[3].op = "calculate_performance_metrics"
    /\ analyzer.portfolio_returns = calls[1].series
    /\ Len(analyzer.returns) = 2

----------------------------------------------------------------------------
(* C27 *)

\* C27: calculate_portfolio_returns leaves the caller's price table as it was:
\* rows, row order, columns and index are the same after the call as before,
\* with time as a column or as the index, and whether the call returns or
\* raises.
C27_TableUnchanged ==
    [][\A r \in DOMAIN requests :
          (calls' # calls /\ calls'[Len(calls')].op = "calculate_portfolio_returns"
                          /\ calls'[Len(calls')].by = r)
          => requests'[r].close_prices = requests[r].close_prices]_vars

----------------------------------------------------------------------------
(* C23 *)

PortfolioCreated == outcome.op = "from_form_data"

\* a == b for two floats read from strings; nan equals nothing.
SameFloat(a, b) ==
    LET Canonical(digits) == StripZeros(digits)
        Decimals(digits) ==
            SubSeq(digits, 1,
                   IF AllZeros(digits) THEN 0
                   ELSE CHOOSE i \in DOMAIN digits :
                           /\ digits[i] # "0"
                           /\ \A j \in (i + 1)..Len(digits) : digits[j] = "0")
    IN  /\ a.kind = "number" /\ b.kind = "number"
        /\ a.neg = b.neg
        /\ Canonical(a.int) = Canonical(b.int)
        /\ Decimals(a.frac) = Decimals(b.frac)

\* C23: every record validate_portfolio_form returns is accepted by
\* Portfolio.from_form_data, given the symbols, the weights and the capital
\* rendered as strings, and the dates: no ValidationError is raised, and the
\* portfolio has the same symbols in the same order, weights that sum to 1.0
\* within 1e-4, and the same capital.
C23_ValidatedFormMakesPortfolio ==
    PortfolioCreated =>
        /\ outcome.status = "ok"
        /\ outcome.symbols = validated.value.symbols
        /\ ~OffOne(ExactSum(outcome.weights, Len(outcome.weights)))
        /\ SameFloat(outcome.capital, validated.value.capital)

----------------------------------------------------------------------------
(* C29 *)

\* The product of (1 + R) over the monthly returns in the order of their
\* months, from the first k of them, as a caller computes it in floating point.
RECURSIVE MonthsCompounded(_, _)
MonthsCompounded(monthly_returns, k) ==
    LET bins == DOMAIN monthly_returns
        Before(a, b) == a[1] < b[1] \/ (a[1] = b[1] /\ a[2] < b[2])
        kth == CHOOSE b \in bins : Cardinality({a \in bins : Before(a, b)}) = k - 1
    IN  IF k = 0 THEN One
        ELSE FlRound(RMul(MonthsCompounded(monthly_returns, k - 1),
                          FlRound(RAdd(One, monthly_returns[kth]))))

\* C29: for every series that is not empty, the monthly returns of the monthly
\* aggregation, compounded over all the calendar months (the product of
\* 1 + R_month, less 1), give the total_return that
\* calculate_performance_metrics reports for the series.
C29_MonthsCompoundToTotal ==
    (outcome.op = "total and monthly" /\ outcome.status = "ok") =>
        FlRound(RSub(MonthsCompounded(outcome.monthly_returns,
                                      Cardinality(DOMAIN outcome.monthly_returns)),
                     One))
            = outcome.total_return

----------------------------------------------------------------------------
(* C30 *)

\* The requests of browser session b among the first k.
RequestsOf(b, k) == {j \in 1..k : calls[j].by = b}

\* Those of them that were a POST /analyze whose pipeline ran to its end.
CompleteAnalyses(b, k) ==
    {j \in RequestsOf(b, k) : calls[j].op = "POST /analyze" /\ calls[j].failed = ""}

\* session['analysis_results'] of b after the first k requests.
StoredAfter(b, k) ==
    IF RequestsOf(b, k) = {} THEN {}
    ELSE calls[CHOOSE j \in RequestsOf(b, k) : \A i \in RequestsOf(b, k) : i <= j].stored

ServesResults(response) == response.status = 200 /\ response.body # {}

\* C30: GET /results serves analysis results only when an earlier POST /analyze
\* of the same session ran the whole pipeline to its end (and then those of the
\* latest such POST); a POST /analyze that fails in input validation, in the
\* fetch, in the charts or in the report answers the index page with status 200
\* and leaves session['analysis_results'] as it was; and with nothing stored
\* GET /results redirects to the index page, or answers 400 to a JSON request.
C30_ResultsOnlyAfterCompleteAnalyze ==
    /\ \A b \in DOMAIN session : session[b] = StoredAfter(b, Len(calls))
    /\ \A i \in DOMAIN calls :
          LET e == calls[i]
              before == StoredAfter(e.by, i - 1)
              complete == CompleteAnalyses(e.by, i - 1)
          IN  /\ (e.op = "POST /analyze" /\ e.failed # "") =>
                    /\ e.response.kind = "index.html"
                    /\ e.response.status = 200
                    /\ e.stored = before
              /\ (e.op = "GET /results") =>
                    /\ e.stored = before
                    /\ ServesResults(e.response) =>
                          /\ complete # {}
                          /\ e.response.body =
                                calls[CHOOSE j \in complete :
                                         \A k \in complete : k <= j].results_data
                    /\ before = {} =>
                          /\ ~ServesResults(e.response)
                          /\ \/ e.response.kind = "redirect to index"
                             \/ e.response.status = 400
                    /\ complete = {} => before = {}

\* A session ran an analysis to its end, then posted one whose report failed,
\* and was then served the results of the first; the other session has none.
C30_Witness ==
    /\ Len(calls) = 3
    /\ calls[1].op = "POST /analyze" /\ calls[1].failed = ""
    /\ calls[2].op = "POST /analyze" /\ calls[2].failed = "report"
    /\ calls[2].by = calls[1].by
    /\ calls[3].op = "GET /results" /\ calls[3].by = calls[1].by
    /\ ServesResults(calls[3].response)
    /\ calls[3].response.body = calls[1].results_data
    /\ \E b \in DOMAIN session : session[b] = {}

====
